---- MODULE Spec2Model ----
(***************************************************************************)
(* Verification model of the farm process services of cdp-app-react:       *)
(* farmProcessService.ts, photoService.ts, treeService.ts, farmService.ts  *)
(* and hypercertService.ts, over the tables declared by the migrations.    *)
(*                                                                         *)
(* Encoding of values:                                                     *)
(*   - ids (farm, tree, batch) are strings; NULL is the SQL/JS null;       *)
(*   - photo ids are the 1-based row numbers of tree_photos, NoPhoto (0)   *)
(*     is a null photo_id;                                                 *)
(*   - step_number, completed_at are integers, NullInt (-1) is null;       *)
(*   - coordinates are integers counted in grid cells of GridMeters metres *)
(*     (x = longitude axis, y = latitude axis).                            *)
(***************************************************************************)
EXTENDS Integers, Sequences, FiniteSets, TLC

VARIABLES
    trees,    \* table trees, in insertion (created_at) order
    steps,    \* table farm_process_steps, in insertion (created_at) order
    photos,   \* table tree_photos, in insertion order; a photo id is its row number
    farms,    \* table farms: farm id -> [exists, boundaries]
    last,     \* the last query made and what it returned; Idle after a write
    ui        \* the state of the ProcessWorkflow page; NoUi while no page is open

vars == <<trees, steps, photos, farms, last, ui>>

NULL == "null"
NullInt == -1
NoPhoto == 0

(***************************************************************************)
(* Bounds of the model.                                                    *)
(***************************************************************************)
MaxSteps == 3
MaxGrid == 4
MaxParcels == 2
MaxPhotos == 1
MaxBatchRows == 4
MaxPhotoRows == 2
MaxWorkflowSteps == 4
MaxChecks == 2
MaxStatusRows == 3
MaxCoordinate == 2
MaxPriorSteps == 1
MaxEvidence == 4
MaxPageSteps == 2
MaxTasks == 2
MaxNewIds == 2

(***************************************************************************)
(* Constants of the program.                                               *)
(***************************************************************************)
\* turf.buffer(polygon, 0.02, {units: 'kilometers'})
BufferMeters == 20
\* let minDistance = Infinity
Infinity == 1000000000
\* Size of one grid cell of the model, in metres.  No grid point lies at
\* exactly BufferMeters from a parcel: the distances are 0, 15, 21.2, 30...
GridMeters == 15

(***************************************************************************)
(* Generic sequence helpers.  Array.prototype.filter is SelectSeq.         *)
(***************************************************************************)
Range(s) == {s[i] : i \in 1..Len(s)}

Reverse(s) == [i \in 1..Len(s) |-> s[Len(s) + 1 - i]]

(***************************************************************************)
(* Identifiers.  FarmA is the farm under evaluation, FarmB another farm.   *)
(***************************************************************************)
FarmA == "farmA"
FarmB == "farmB"
FarmIds == {FarmA, FarmB}
BatchIds == {"batch1", "batch2"}
StepTypes == {"monthly_update", "drying", "final_bag", "completed"}

(***************************************************************************)
(* treeService.ts: stored locations and their parsing.                     *)
(* A stored location is [shape, x, y]: the representation the driver       *)
(* returned and the two numbers written in it (x = longitude).             *)
(*   "latlng"    object {lat: y, lng: x}                                   *)
(*   "latitude"  object {latitude: y, longitude: x}                        *)
(*   "xy"        object {x: x, y: y}                                       *)
(*   "paren"     string "(x,y)"                                            *)
(*   "wkt"       string "POINT(x y)"                                       *)
(*   "bare"      string "x,y"                                              *)
(*   "bad"       a string no pattern matches                               *)
(***************************************************************************)
ObjectShapes == {"latlng", "latitude", "xy"}
StringShapes == {"paren", "wkt", "bare", "bad"}

\* A component that is not a number (parseFloat gives NaN for it).
NaN == -1000
isNaN(v) == v = NaN

Invalid == [ok |-> FALSE, lat |-> 0, lng |-> 0]
Parsed(lat, lng) == [ok |-> TRUE, lat |-> lat, lng |-> lng]

\* An object may carry a second pair of keys beside the pair of its
\* shape: the field also, itself a [shape, x, y].  hasKeys is the test
\* 'k in point' on both keys of a pair, keysOf the pair read from them.
hasKeys(point, shape) ==
    \/ point.shape = shape
    \/ "also" \in DOMAIN point /\ point.also.shape = shape

keysOf(point, shape) == IF point.shape = shape THEN point ELSE point.also

numeric(pair) == ~isNaN(pair.x) /\ ~isNaN(pair.y)

readKeys(point, shape) == Parsed(keysOf(point, shape).y, keysOf(point, shape).x)

\* The three string patterns, common to pointToLocation and parseLocation:
\* "(x,y)", "POINT(x y)" and "x,y"; each text matches one of them only, and
\* a component that is not a number makes all of them fail.
stringToLocation(point) ==
    IF point.shape = "paren" /\ numeric(point) THEN Parsed(point.y, point.x)
    ELSE IF point.shape = "wkt" /\ numeric(point) THEN Parsed(point.y, point.x)
    ELSE IF point.shape = "bare" /\ numeric(point) THEN Parsed(point.y, point.x)
    ELSE Invalid

\* pointToLocation: the shapes are tried in the order of the source, a pair
\* with a NaN component falls through to the next shape; a value that no
\* shape accepts makes the function throw (ok = FALSE).
pointToLocation(point) ==
    IF hasKeys(point, "latlng") /\ numeric(keysOf(point, "latlng")) THEN readKeys(point, "latlng")
    ELSE IF hasKeys(point, "latitude") /\ numeric(keysOf(point, "latitude")) THEN readKeys(point, "latitude")
    ELSE IF hasKeys(point, "xy") /\ numeric(keysOf(point, "xy")) THEN readKeys(point, "xy")
    ELSE IF point.shape \in StringShapes THEN stringToLocation(point)
    ELSE Invalid

\* The location handling inlined in getTreesByFarm: an object with lat/lng
\* is used directly, any other object is passed through JSON.stringify and
\* the resulting text ('{"x":1,"y":2}') is handed to pointToLocation, where
\* no pattern yields two numbers; strings go to pointToLocation unchanged.
treeLocationInList(point) ==
    IF hasKeys(point, "latlng") /\ numeric(keysOf(point, "latlng")) THEN readKeys(point, "latlng")
    ELSE IF point.shape \in ObjectShapes THEN Invalid
    ELSE pointToLocation(point)

\* getTreesByFarm: rows of the farm, newest first, rows whose location does
\* not parse dropped; a failed query yields [].
getTreesByFarm(treeRows, farmId, queryFails) ==
    IF queryFails THEN <<>>
    ELSE LET own(t) == t.farm_id = farmId /\ treeLocationInList(t.location).ok
         IN  SelectSeq(Reverse(treeRows), own)

\* getTreeById: the row with that id; found = FALSE stands for the null it
\* returns when there is no such row, the query fails or the location of
\* the row does not parse.
NoTree == [found |-> FALSE, farm_id |-> NULL]

getTreeById(treeRows, treeId, queryFails) ==
    LET hit == {i \in 1..Len(treeRows) : treeRows[i].id = treeId}
    IN  IF queryFails \/ hit = {} THEN NoTree
        ELSE LET t == treeRows[CHOOSE i \in hit : TRUE]
             IN  IF pointToLocation(t.location).ok
                 THEN [found |-> TRUE, farm_id |-> t.farm_id]
                 ELSE NoTree

(***************************************************************************)
(* farmProcessService.ts: reading the steps of a farm.                     *)
(***************************************************************************)
\* .order('step_number', nullsFirst: false).order('created_at'): a is
\* returned before b.  Rows are kept in insertion order, which is the
\* created_at order, so the row index breaks ties.
StepBefore(rows, i, j) ==
    LET a == rows[i].step_number
        b == rows[j].step_number
    IN  IF a = b THEN i < j
        ELSE IF a = NullInt THEN FALSE
        ELSE IF b = NullInt THEN TRUE
        ELSE a < b

\* The rows at the indices idx, in query order.
RECURSIVE OrderRows(_, _)
OrderRows(rows, idx) ==
    IF idx = {} THEN <<>>
    ELSE LET first == CHOOSE i \in idx : \A j \in idx \ {i} : StepBefore(rows, i, j)
         IN  <<rows[first]>> \o OrderRows(rows, idx \ {first})

\* JavaScript truthiness of a string-or-null and of a number-or-null.
TruthyStr(v) == v # NULL /\ v # ""
TruthyNum(n) == n # NullInt /\ n # 0

\* getProcessStepsByFarm(farmId, batchId?): the batch filter is applied
\* only `if (batchId)`; a failed query yields [].
getProcessStepsByFarm(stepRows, farmId, batchId, queryFails) ==
    IF queryFails THEN <<>>
    ELSE OrderRows(stepRows,
            {i \in 1..Len(stepRows) :
                /\ stepRows[i].farm_id = farmId
                /\ (TruthyStr(batchId) => stepRows[i].batch_id = batchId)})

(***************************************************************************)
(* farmProcessService.ts: isBatchReadyForHypercert.                        *)
(* A result is [ready, reason, names]: reason is NULL when the source      *)
(* returns no reason; names are the identifiers interpolated into the      *)
(* "Missing photos for tree(s): ..." message.                              *)
(***************************************************************************)
ReasonNoTree == "Farm must have at least one tree"
ReasonTrees == "Missing photos for tree(s): ... Each tree needs at least one photo."
ReasonDrying == "Missing photo of the drying system"
ReasonFinalBag == "Missing photo of the final bag"
ReasonError == "Error checking batch status"

\* id.slice(0, 8) of the tree ids of the model.
Slice8(id) ==
    CASE id = "11111111-aaaa" -> "11111111"
      [] id = "22222222-bbbb" -> "22222222"
      [] id = "33333333-cccc" -> "33333333"
      [] id = "44444444-dddd" -> "44444444"
      [] OTHER -> id

\* A result that is not ready and gives no reason.
NotReady_NoReason(reason, names) == [ready |-> FALSE, reason |-> NULL, names |-> names]

NotReady(reason, names) == [ready |-> FALSE, reason |-> reason, names |-> names]

\* The same function with the drying check made before the per-tree check.
isBatchReadyForHypercert_DryingFirst(stepRows, treeRows, farmId, batchId, stepsFail, treesFail) ==
    LET stepList == getProcessStepsByFarm(stepRows, farmId, batchId, stepsFail)
        treeList == getTreesByFarm(treeRows, farmId, treesFail)
        treeIds == {t.id : t \in Range(treeList)}
        isMonthly(s) == /\ s.step_type = "monthly_update"
                        /\ s.tree_id # NULL
                        /\ s.photo_id # NoPhoto
                        /\ s.tree_id \in treeIds
        treesWithPhotos == {s.tree_id : s \in Range(SelectSeq(stepList, isMonthly))}
        lacksPhoto(t) == t.id \notin treesWithPhotos
        treesWithoutPhotos == SelectSeq(treeList, lacksPhoto)
        label(t) == IF TruthyStr(t.tree_number) THEN t.tree_number ELSE Slice8(t.id)
        isDrying(s) == s.step_type = "drying" /\ s.photo_id # NoPhoto
        isFinalBag(s) == s.step_type = "final_bag" /\ s.photo_id # NoPhoto
    IN  IF Len(treeList) = 0 THEN NotReady(ReasonNoTree, <<>>)
        ELSE IF ~(\E i \in 1..Len(stepList) : isDrying(stepList[i])) THEN NotReady(ReasonDrying, <<>>)
        ELSE IF Len(treesWithoutPhotos) > 0
             THEN NotReady(ReasonTrees, [i \in 1..Len(treesWithoutPhotos) |-> label(treesWithoutPhotos[i])])
        ELSE IF ~(\E i \in 1..Len(stepList) : isFinalBag(stepList[i])) THEN NotReady(ReasonFinalBag, <<>>)
        ELSE [ready |-> TRUE, reason |-> NULL, names |-> <<>>]

\* The same checks with every tree of the farm named in the reason.
isBatchReadyForHypercert_AllTreesNamed(stepRows, treeRows, farmId, batchId, stepsFail, treesFail) ==
    LET stepList == getProcessStepsByFarm(stepRows, farmId, batchId, stepsFail)
        treeList == getTreesByFarm(treeRows, farmId, treesFail)
        treeIds == {t.id : t \in Range(treeList)}
        isMonthly(s) == /\ s.step_type = "monthly_update"
                        /\ s.tree_id # NULL
                        /\ s.photo_id # NoPhoto
                        /\ s.tree_id \in treeIds
        monthlySteps == SelectSeq(stepList, isMonthly)
        treesWithPhotos == {s.tree_id : s \in Range(monthlySteps)}
        lacksPhoto(t) == t.id \notin treesWithPhotos
        treesWithoutPhotos == SelectSeq(treeList, lacksPhoto)
        label(t) == IF TruthyStr(t.tree_number) THEN t.tree_number ELSE Slice8(t.id)
        isDrying(s) == s.step_type = "drying" /\ s.photo_id # NoPhoto
        isFinalBag(s) == s.step_type = "final_bag" /\ s.photo_id # NoPhoto
    IN  IF Len(treeList) = 0 THEN NotReady(ReasonNoTree, <<>>)
        ELSE IF Len(treesWithoutPhotos) > 0
             THEN NotReady(ReasonTrees, [i \in 1..Len(treeList) |-> label(treeList[i])])
        ELSE IF ~(\E i \in 1..Len(stepList) : isDrying(stepList[i])) THEN NotReady(ReasonDrying, <<>>)
        ELSE IF ~(\E i \in 1..Len(stepList) : isFinalBag(stepList[i])) THEN NotReady(ReasonFinalBag, <<>>)
        ELSE [ready |-> TRUE, reason |-> NULL, names |-> <<>>]

isBatchReadyForHypercert(stepRows, treeRows, farmId, batchId, stepsFail, treesFail) ==
    LET stepList == getProcessStepsByFarm(stepRows, farmId, batchId, stepsFail)
        treeList == getTreesByFarm(treeRows, farmId, treesFail)
        treeIds == {t.id : t \in Range(treeList)}
        isMonthly(s) == /\ s.step_type = "monthly_update"
                        /\ s.tree_id # NULL
                        /\ s.photo_id # NoPhoto
                        /\ s.tree_id \in treeIds
        monthlySteps == SelectSeq(stepList, isMonthly)
        treesWithPhotos == {s.tree_id : s \in Range(monthlySteps)}
        lacksPhoto(t) == t.id \notin treesWithPhotos
        treesWithoutPhotos == SelectSeq(treeList, lacksPhoto)
        label(t) == IF TruthyStr(t.tree_number) THEN t.tree_number ELSE Slice8(t.id)
        isDrying(s) == s.step_type = "drying" /\ s.photo_id # NoPhoto
        isFinalBag(s) == s.step_type = "final_bag" /\ s.photo_id # NoPhoto
    IN  IF Len(treeList) = 0 THEN NotReady(ReasonNoTree, <<>>)
        ELSE IF Len(treesWithoutPhotos) > 0
             THEN NotReady(ReasonTrees, [i \in 1..Len(treesWithoutPhotos) |-> label(treesWithoutPhotos[i])])
        ELSE IF ~(\E i \in 1..Len(stepList) : isDrying(stepList[i])) THEN NotReady(ReasonDrying, <<>>)
        ELSE IF ~(\E i \in 1..Len(stepList) : isFinalBag(stepList[i])) THEN NotReady(ReasonFinalBag, <<>>)
        ELSE [ready |-> TRUE, reason |-> NULL, names |-> <<>>]

(***************************************************************************)
(* farmService.ts: getFarmById.  farmRows maps a farm id to                *)
(* [exists, boundaries]; found = FALSE stands for the null it returns.     *)
(***************************************************************************)
getFarmById(farmRows, farmId, queryFails) ==
    IF queryFails \/ farmId \notin DOMAIN farmRows \/ ~farmRows[farmId].exists
    THEN [found |-> FALSE, boundaries |-> <<>>]
    ELSE [found |-> TRUE, boundaries |-> farmRows[farmId].boundaries]

\* parseLocation of farmService.ts: as pointToLocation, without the x/y
\* keys.
parseLocation(point) ==
    IF hasKeys(point, "latlng") /\ numeric(keysOf(point, "latlng")) THEN readKeys(point, "latlng")
    ELSE IF hasKeys(point, "latitude") /\ numeric(keysOf(point, "latitude")) THEN readKeys(point, "latitude")
    ELSE IF point.shape \in StringShapes THEN stringToLocation(point)
    ELSE Invalid

(***************************************************************************)
(* Geometry (the @turf/turf calls of photoService.ts).  A polygon is its   *)
(* outer ring coordinates[0]: a closed sequence of grid points.  The       *)
(* parcels of the model are axis-aligned rectangles, for which the         *)
(* operators below are exact.                                              *)
(***************************************************************************)
Pt(x, y) == [x |-> x, y |-> y]

Rect(x1, y1, x2, y2) == <<Pt(x1, y1), Pt(x1, y2), Pt(x2, y2), Pt(x2, y1), Pt(x1, y1)>>

Min(a, b) == IF a < b THEN a ELSE b
Max(a, b) == IF a > b THEN a ELSE b

\* turf.pointToLineDistance(point, lineString([a, b]), {units: 'meters'}),
\* squared (square metres).
pointToLineDistance2(p, a, b) ==
    LET dx == IF p.x < Min(a.x, b.x) THEN Min(a.x, b.x) - p.x
              ELSE IF p.x > Max(a.x, b.x) THEN p.x - Max(a.x, b.x) ELSE 0
        dy == IF p.y < Min(a.y, b.y) THEN Min(a.y, b.y) - p.y
              ELSE IF p.y > Max(a.y, b.y) THEN p.y - Max(a.y, b.y) ELSE 0
    IN  GridMeters * GridMeters * (dx * dx + dy * dy)

\* The loop `for (i = 0; i < coordinates.length - 1; i++)` over the edges of
\* one ring, folding Math.min into acc.
RECURSIVE ringMinDistance2(_, _, _, _)
ringMinDistance2(p, ring, i, acc) ==
    IF i > Len(ring) - 1 THEN acc
    ELSE LET distance == pointToLineDistance2(p, ring[i], ring[i + 1])
         IN  IF distance < acc
             THEN ringMinDistance2(p, ring, i + 1, distance)
             ELSE ringMinDistance2(p, ring, i + 1, acc)

\* turf.booleanPointInPolygon(point, polygon) on the unbuffered ring
\* (boundary included).
booleanPointInPolygon(p, ring) ==
    /\ \E i \in 1..Len(ring) : ring[i].x <= p.x
    /\ \E i \in 1..Len(ring) : ring[i].x >= p.x
    /\ \E i \in 1..Len(ring) : ring[i].y <= p.y
    /\ \E i \in 1..Len(ring) : ring[i].y >= p.y

\* booleanPointInPolygon(photoPoint, turf.buffer(polygon, 0.02 km)): the
\* buffered polygon is the set of points at most BufferMeters from the
\* polygon.
inBufferedPolygon(p, ring) ==
    \/ booleanPointInPolygon(p, ring)
    \/ ringMinDistance2(p, ring, 1, Infinity) <= BufferMeters * BufferMeters

(***************************************************************************)
(* photoService.ts: validatePhotoLocationInFarm.                           *)
(* A result is [valid, error, distance2, bufferCalls, distanceCalls]:      *)
(* error is NULL when the source returns none, distance2 is the square of  *)
(* the distance interpolated into the message (NullInt when the message    *)
(* has none), and the two counters say how many polygons were buffered and *)
(* how many edge distances were computed during the call.                  *)
(***************************************************************************)
ErrTreeNotFound == "Tree not found"
ErrNoBoundaries == "Farm boundaries not found"
ErrOutside == "Photo location is outside farm boundaries. Distance to boundary: ...m (maximum allowed: 20m)"

Validation(valid, error, d2, nb, nd) ==
    [valid |-> valid, error |-> error, distance2 |-> d2,
     bufferCalls |-> nb, distanceCalls |-> nd]

\* First loop: index of the first polygon whose buffer contains the point,
\* or 0; polygons after it are not looked at.
\* The same loop returning `valid: false` as soon as one polygon does not
\* contain the point (intersection instead of union).
firstContaining_AllRequired(p, boundaries, i) ==
    IF \A k \in i..Len(boundaries) : inBufferedPolygon(p, boundaries[k])
    THEN Len(boundaries) ELSE 0

RECURSIVE firstContaining(_, _, _)
firstContaining(p, boundaries, i) ==
    IF i > Len(boundaries) THEN 0
    ELSE IF inBufferedPolygon(p, boundaries[i]) THEN i
    ELSE firstContaining(p, boundaries, i + 1)

\* Second loop: minimum distance to any edge of any polygon.
RECURSIVE minDistance2(_, _, _, _)
minDistance2(p, boundaries, i, acc) ==
    IF i > Len(boundaries) THEN acc
    ELSE LET nearest == ringMinDistance2(p, boundaries[i], 1, acc)
         IN  minDistance2(p, boundaries, i + 1, nearest)

RECURSIVE edgeCount(_, _)
edgeCount(boundaries, i) ==
    IF i > Len(boundaries) THEN 0
    ELSE (Len(boundaries[i]) - 1) + edgeCount(boundaries, i + 1)

\* The same function without the `farm.boundaries.length === 0` test.
validatePhotoLocationInFarm_NoEmptyTest(treeRows, farmRows, treeId, photoLocation, treeFails, farmFails) ==
    LET tree == getTreeById(treeRows, treeId, treeFails)
        farm == getFarmById(farmRows, tree.farm_id, farmFails)
        hit == firstContaining(photoLocation, farm.boundaries, 1)
    IN  IF ~tree.found THEN Validation(FALSE, ErrTreeNotFound, NullInt, 0, 0)
        ELSE IF ~farm.found THEN Validation(FALSE, ErrNoBoundaries, NullInt, 0, 0)
        ELSE IF hit # 0 THEN Validation(TRUE, NULL, NullInt, hit, 0)
        ELSE Validation(FALSE, ErrOutside,
                        minDistance2(photoLocation, farm.boundaries, 1, Infinity),
                        Len(farm.boundaries), edgeCount(farm.boundaries, 1))

validatePhotoLocationInFarm(treeRows, farmRows, treeId, photoLocation, treeFails, farmFails) ==
    LET tree == getTreeById(treeRows, treeId, treeFails)
        farm == getFarmById(farmRows, tree.farm_id, farmFails)
        hit == firstContaining(photoLocation, farm.boundaries, 1)
    IN  IF ~tree.found THEN Validation(FALSE, ErrTreeNotFound, NullInt, 0, 0)
        ELSE IF ~farm.found \/ Len(farm.boundaries) = 0
             THEN Validation(FALSE, ErrNoBoundaries, NullInt, 0, 0)
        ELSE IF hit # 0 THEN Validation(TRUE, NULL, NullInt, hit, 0)
        ELSE Validation(FALSE, ErrOutside,
                        minDistance2(photoLocation, farm.boundaries, 1, Infinity),
                        Len(farm.boundaries), edgeCount(farm.boundaries, 1))

\* The try block and the catch block of validatePhotoLocationInFarm: the
\* calls of the geometry library come after the farm was found with
\* boundaries; when one of them throws (turfThrows), the catch block turns
\* the exception into a result.  An outcome is a value returned or an
\* exception that leaves the function.
ErrValidating == "Error validating location"

Returned(validation) == [thrown |-> FALSE, value |-> validation]

Escaped == [thrown |-> TRUE, value |-> Validation(FALSE, NULL, NullInt, 0, 0)]

tryValidation(validation, turfThrows) ==
    IF turfThrows /\ validation.error \notin {ErrTreeNotFound, ErrNoBoundaries}
    THEN Escaped
    ELSE Returned(validation)

\* The function without its catch block.
catchValidation_Rethrown(outcome) == outcome

catchValidation(outcome) ==
    IF outcome.thrown THEN Returned(Validation(FALSE, ErrValidating, NullInt, 0, 0))
    ELSE outcome

validatePhotoLocationOutcome(treeRows, farmRows, treeId, photoLocation, treeFails, farmFails, turfThrows) ==
    catchValidation(tryValidation(
        validatePhotoLocationInFarm(treeRows, farmRows, treeId, photoLocation, treeFails, farmFails),
        turfThrows))

(***************************************************************************)
(* photoService.ts: uploadTreePhoto.                                       *)
(* photoData is [hasLocation, location, taken_at]; env says which of the   *)
(* collaborators fail during the call.  The result carries what the call   *)
(* did, in order (events), whether it threw, the id of the stored photo    *)
(* (NoPhoto for null) and the tree_photos table after the call.            *)
(***************************************************************************)
ErrLocationRequired == "Location is required to upload photo"
ErrIpfs == "IPFS upload failed"

NoLocation == Pt(-1, -1)

Event(ev, valid, loc) == [ev |-> ev, valid |-> valid, loc |-> loc]

\* new Date() / NOW() at the time a row is stored in a table: a logical
\* clock that advances with every row of that table (timestamps are only
\* ever compared with timestamps of the same table).
Clock(rows) == Len(rows) + 1

Upload(thrown, error, photoId, events, photoRows) ==
    [thrown |-> thrown, error |-> error, photo_id |-> photoId,
     events |-> events, photos |-> photoRows]

\* The same steps without the throw on validation.valid = false.
uploadValidated_ValidationIgnored(photoRows, treeId, photoData, env, validation) ==
    LET validated == IF photoData.hasLocation
                     THEN <<Event("validate", validation.valid, photoData.location)>>
                     ELSE <<>>
        uploaded == validated \o <<Event("ipfs", TRUE, photoData.location)>>
        row == [tree_id |-> treeId, taken_at |-> Clock(photoRows)]
    IN  IF ~photoData.hasLocation
        THEN Upload(TRUE, ErrLocationRequired, NoPhoto, validated, photoRows)
        ELSE Upload(FALSE, NULL, Len(photoRows) + 1,
                    uploaded \o <<Event("insert", TRUE, photoData.location)>>,
                    Append(photoRows, row))

\* uploadTreePhoto from the return of validatePhotoLocationInFarm on.
uploadValidated(photoRows, treeId, photoData, env, validation) ==
    LET validated == IF photoData.hasLocation
                     THEN <<Event("validate", validation.valid, photoData.location)>>
                     ELSE <<>>
        uploaded == validated \o <<Event("ipfs", TRUE, photoData.location)>>
        row == [tree_id |-> treeId,
                taken_at |-> IF TruthyNum(photoData.taken_at)
                             THEN photoData.taken_at ELSE Clock(photoRows)]
    IN  IF photoData.hasLocation /\ ~validation.valid
        THEN Upload(TRUE, validation.error, NoPhoto, validated, photoRows)
        ELSE IF ~photoData.hasLocation
        THEN Upload(TRUE, ErrLocationRequired, NoPhoto, validated, photoRows)
        ELSE IF env.ipfsFails
        THEN Upload(TRUE, ErrIpfs, NoPhoto,
                    validated \o <<Event("ipfs", FALSE, photoData.location)>>, photoRows)
        ELSE IF env.insertFails
        THEN Upload(FALSE, NULL, NoPhoto,
                    uploaded \o <<Event("insert", FALSE, photoData.location)>>, photoRows)
        ELSE Upload(FALSE, NULL, Len(photoRows) + 1,
                    uploaded \o <<Event("insert", TRUE, photoData.location)>>,
                    Append(photoRows, row))

uploadTreePhoto(treeRows, farmRows, photoRows, treeId, photoData, env) ==
    uploadValidated(photoRows, treeId, photoData, env,
        validatePhotoLocationInFarm(treeRows, farmRows, treeId, photoData.location,
                                    env.treeFails, env.farmFails))

(***************************************************************************)
(* farm_process_steps: the table and its constraint.                       *)
(***************************************************************************)
StepRow(farmId, batchId, treeId, stepType, stepNumber, photoId, completedAt, createdAt) ==
    [farm_id |-> farmId, batch_id |-> batchId, tree_id |-> treeId,
     step_type |-> stepType, step_number |-> stepNumber, photo_id |-> photoId,
     completed_at |-> completedAt, created_at |-> createdAt]

\* UNIQUE(farm_id, batch_id, tree_id, step_type, step_number): SQL treats
\* nulls as distinct, so only rows with a tree and a number can collide.
violatesUnique(stepRows, row) ==
    /\ row.tree_id # NULL
    /\ row.step_number # NullInt
    /\ \E i \in 1..Len(stepRows) :
          /\ stepRows[i].farm_id = row.farm_id
          /\ stepRows[i].batch_id = row.batch_id
          /\ stepRows[i].tree_id = row.tree_id
          /\ stepRows[i].step_type = row.step_type
          /\ stepRows[i].step_number = row.step_number

(***************************************************************************)
(* farmProcessService.ts: createProcessStep and completeFarmProcess.       *)
(* stepData is [step_type, step_number, tree_id, location, batch_id] with  *)
(* NullInt / NULL for the optional fields left out; freshId is the value   *)
(* crypto.randomUUID() returns during the call.                            *)
(***************************************************************************)
ErrTreeRequiredMonthly == "Tree ID is required for monthly updates"
ErrTreeRequired == "Tree ID is required. Please ensure your farm has at least one tree."
ErrUploadFailed == "Failed to upload photo"

Created(thrown, error, inserted, events, stepRows, photoRows) ==
    [thrown |-> thrown, error |-> error, inserted |-> inserted,
     events |-> events, steps |-> stepRows, photos |-> photoRows]

\* The same choice with the batch of stepData ahead of the one passed.
finalBatchId_StepDataFirst(batchId, stepDataBatchId, freshId) ==
    IF TruthyStr(stepDataBatchId) THEN stepDataBatchId
    ELSE IF TruthyStr(batchId) THEN batchId
    ELSE freshId

\* const finalBatchId = batchId || stepData.batch_id || crypto.randomUUID()
finalBatchId(batchId, stepDataBatchId, freshId) ==
    IF TruthyStr(batchId) THEN batchId
    ELSE IF TruthyStr(stepDataBatchId) THEN stepDataBatchId
    ELSE freshId

\* createProcessStep from the return of uploadTreePhoto on.
insertProcessStep(stepRows, photoRows, farmId, stepData, batchId, freshId, env, treeId, photo) ==
    LET row == StepRow(farmId, finalBatchId(batchId, stepData.batch_id, freshId),
                       treeId, stepData.step_type,
                       IF TruthyNum(stepData.step_number)
                       THEN stepData.step_number ELSE NullInt,
                       photo.photo_id,
                       Clock(stepRows), Clock(stepRows))
    IN  IF stepData.step_type = "monthly_update" /\ ~TruthyStr(stepData.tree_id)
        THEN Created(TRUE, ErrTreeRequiredMonthly, FALSE, <<>>, stepRows, photoRows)
        ELSE IF ~TruthyStr(treeId)
        THEN Created(TRUE, ErrTreeRequired, FALSE, <<>>, stepRows, photoRows)
        ELSE IF photo.thrown
        THEN Created(TRUE, photo.error, FALSE, photo.events, stepRows, photo.photos)
        ELSE IF photo.photo_id = NoPhoto
        THEN Created(TRUE, ErrUploadFailed, FALSE, photo.events, stepRows, photo.photos)
        ELSE IF env.stepInsertFails \/ violatesUnique(stepRows, row)
        THEN Created(FALSE, NULL, FALSE, photo.events, stepRows, photo.photos)
        ELSE Created(FALSE, NULL, TRUE, photo.events, Append(stepRows, row), photo.photos)

\* The tree of the step: the one given, or for the batch-level steps the
\* first tree of the farm.
stepTreeId(treeRows, farmId, stepData, env) ==
    LET treeList == getTreesByFarm(treeRows, farmId, env.treesFail)
    IN  IF stepData.step_type = "monthly_update" THEN stepData.tree_id
        ELSE IF TruthyStr(stepData.tree_id) THEN stepData.tree_id
        ELSE IF Len(treeList) > 0 THEN treeList[1].id
        ELSE NULL

uploadStepPhoto(treeRows, farmRows, photoRows, stepData, env, treeId) ==
    uploadTreePhoto(treeRows, farmRows, photoRows, treeId,
                    [hasLocation |-> TRUE, location |-> stepData.location,
                     taken_at |-> NullInt], env)

createProcessStepFor(treeRows, farmRows, stepRows, photoRows, farmId, stepData, batchId, freshId, env, treeId) ==
    insertProcessStep(stepRows, photoRows, farmId, stepData, batchId, freshId, env, treeId,
        uploadStepPhoto(treeRows, farmRows, photoRows, stepData, env, treeId))

createProcessStep(treeRows, farmRows, stepRows, photoRows, farmId, stepData, batchId, freshId, env) ==
    createProcessStepFor(treeRows, farmRows, stepRows, photoRows, farmId, stepData,
                         batchId, freshId, env, stepTreeId(treeRows, farmId, stepData, env))

\* The same insert replacing the rows stored.
completeFarmProcess_StepsReplaced(stepRows, farmId, batchId, insertFails) ==
    IF insertFails THEN stepRows
    ELSE <<StepRow(farmId, batchId, NULL, "completed", NullInt, NoPhoto,
                   Clock(stepRows), Clock(stepRows))>>

\* completeFarmProcess: inserts the 'completed' marker of a batch; the
\* result is the table after the call (unchanged when the insert fails).
completeFarmProcess(stepRows, farmId, batchId, insertFails) ==
    IF insertFails THEN stepRows
    ELSE Append(stepRows,
                StepRow(farmId, batchId, NULL, "completed", NullInt, NoPhoto,
                        Clock(stepRows), Clock(stepRows)))

(***************************************************************************)
(* The stored data the behaviours start from.                              *)
(***************************************************************************)
Loc(shape, x, y) == [shape |-> shape, x |-> x, y |-> y]

TreeRow(id, farmId, number, location) ==
    [id |-> id, farm_id |-> farmId, tree_number |-> number, location |-> location]

Tree1 == TreeRow("11111111-aaaa", FarmA, "T-1", Loc("paren", 1, 1))
Tree2 == TreeRow("22222222-bbbb", FarmA, NULL, Loc("paren", 2, 2))
Tree3 == TreeRow("33333333-cccc", FarmB, "T-3", Loc("paren", 4, 4))
Tree4 == TreeRow("44444444-dddd", FarmA, "", Loc("bad", 0, 0))

\* Farm A without trees, with one tree and with two; Tree3 belongs to
\* farm B.
TreeTables == {<<Tree3>>, <<Tree1, Tree3>>, <<Tree1, Tree2, Tree3>>}

FarmRow(boundaries) == [exists |-> TRUE, boundaries |-> boundaries]

StandardFarms == [f \in FarmIds |->
    IF f = FarmA THEN FarmRow(<<Rect(1, 1, 2, 2)>>) ELSE FarmRow(<<Rect(3, 3, 4, 4)>>)]

Idle == [op |-> "none"]

NoUi == [open |-> FALSE]

TreeIdsOf(treeRows) == {t.id : t \in Range(treeRows)}

(***************************************************************************)
(* Specification SpecReady: the process steps of farm A are recorded and   *)
(* the readiness of its batches is evaluated.                              *)
(***************************************************************************)
InitReady ==
    /\ trees \in TreeTables
    /\ farms = StandardFarms
    /\ steps = <<>>
    /\ photos = <<>>
    /\ last = Idle
    /\ ui = NoUi

NoFailure == [treesFail |-> FALSE, treeFails |-> FALSE, farmFails |-> FALSE,
              ipfsFails |-> FALSE, insertFails |-> FALSE, stepInsertFails |-> FALSE]

\* The collaborators work, or exactly one of them fails during the call.
Failures ==
    {NoFailure} \cup {[NoFailure EXCEPT ![k] = TRUE] : k \in DOMAIN NoFailure}

\* The failures that happen before anything is stored.
EarlyFailures == {env \in Failures : ~env.stepInsertFails}

\* Photo locations tried: inside the parcel of farm A, and far outside.
PhotoLocations == {Pt(1, 2), Pt(0, 4)}

\* The step forms of ProcessWorkflow: a monthly update names a tree and a
\* month, drying and final bag name neither.
StepInputs(treeRows) ==
    {[step_type |-> "monthly_update", step_number |-> n, tree_id |-> t,
      location |-> l, batch_id |-> NULL] :
        n \in {1}, t \in TreeIdsOf(treeRows) \cup {NULL}, l \in PhotoLocations}
    \cup
    {[step_type |-> ty, step_number |-> NullInt, tree_id |-> NULL,
      location |-> l, batch_id |-> NULL] :
        ty \in {"drying", "final_bag"}, l \in PhotoLocations}

CreateProcessStep ==
    /\ Len(steps) < MaxSteps
    /\ Len(photos) < MaxSteps
    /\ \E stepData \in StepInputs(trees), batchId \in BatchIds, env \in EarlyFailures :
          LET r == createProcessStep(trees, farms, steps, photos,
                                     FarmA, stepData, batchId, batchId, env)
          IN  /\ steps' = r.steps
              /\ photos' = r.photos
              /\ last' = Idle
    /\ UNCHANGED <<ui, trees, farms>>

CompleteFarmProcess ==
    /\ Len(steps) < MaxSteps
    /\ \E batchId \in BatchIds, insertFails \in BOOLEAN :
          /\ steps' = completeFarmProcess(steps, FarmA, batchId, insertFails)
          /\ last' = Idle
    /\ UNCHANGED <<ui, trees, photos, farms>>

\* A row of farm_process_steps stored by the storage side without going
\* through createProcessStep: a step in progress (completed_at null), with
\* or without a photo reference.
StorageInsertStep ==
    /\ Len(steps) < MaxSteps
    /\ \E ty \in {"monthly_update", "drying", "final_bag"},
          photoId \in {NoPhoto, Len(photos)} :
          \E treeId \in (IF ty = "monthly_update"
                         THEN {t.id : t \in Range(getTreesByFarm(trees, FarmA, FALSE))}
                         ELSE {NULL}) :
             steps' = Append(steps,
                        StepRow(FarmA, "batch1", treeId, ty, NullInt, photoId,
                                NullInt, Clock(steps)))
    /\ last' = Idle
    /\ UNCHANGED <<ui, trees, photos, farms>>

\* A call of isBatchReadyForHypercert(FarmA, batchId); fail says which of
\* its two reads fails, if any.
CheckReadiness ==
    /\ \E batchId \in BatchIds, fail \in {"none", "steps", "trees"} :
          last' = [op |-> "isBatchReadyForHypercert", batch_id |-> batchId,
                   fail |-> fail,
                   result |-> isBatchReadyForHypercert(steps, trees, FarmA, batchId,
                                                       fail = "steps", fail = "trees")]
    /\ UNCHANGED <<ui, trees, steps, photos, farms>>

NextReady ==
    \/ CreateProcessStep
    \/ CompleteFarmProcess
    \/ StorageInsertStep
    \/ CheckReadiness

SpecReady == InitReady /\ [][NextReady]_vars

(***************************************************************************)
(* Properties of isBatchReadyForHypercert, stated on the stored rows.      *)
(***************************************************************************)
ReadinessReturned == last.op = "isBatchReadyForHypercert"

\* The trees of farm A in the table, and the rows of farm A in batch b.
TreesOfFarmA == {t \in Range(trees) : t.farm_id = FarmA}
RowsOfBatch(b) == {s \in Range(steps) : s.farm_id = FarmA /\ s.batch_id = b}

Completed(s) == s.completed_at # NullInt
HasPhoto(s) == s.photo_id # NoPhoto

\* The four conditions of the specification, on completed steps.
TreeCovered(t, b) ==
    \E s \in RowsOfBatch(b) :
        s.step_type = "monthly_update" /\ s.tree_id = t.id /\ Completed(s) /\ HasPhoto(s)
KindCovered(kind, b) ==
    \E s \in RowsOfBatch(b) : s.step_type = kind /\ Completed(s) /\ HasPhoto(s)
AllFourConditions(b) ==
    /\ TreesOfFarmA # {}
    /\ \A t \in TreesOfFarmA : TreeCovered(t, b)
    /\ KindCovered("drying", b)
    /\ KindCovered("final_bag", b)

\* C1: when both reads succeed, isBatchReadyForHypercert(farm, batch)
\* returns ready = true exactly when the farm has a tree, every tree of the
\* farm has a completed monthly_update step with a photo in this batch, and
\* the batch has a completed drying step with a photo and a completed
\* final_bag step with a photo; steps of other batches do not count.
C1_ReadyIffAllFourConditions ==
    (ReadinessReturned /\ last.fail = "none")
        => (last.result.ready <=> AllFourConditions(last.batch_id))

\* What the call read: nothing from a table whose read failed.
TreesRead == IF last.fail = "trees" THEN {} ELSE TreesOfFarmA
RowsRead == IF last.fail = "steps" THEN {} ELSE RowsOfBatch(last.batch_id)

TreeLacksPhoto ==
    \E t \in TreesRead :
        ~\E s \in RowsRead : s.step_type = "monthly_update" /\ s.tree_id = t.id /\ HasPhoto(s)
NoPhotoOfKind(kind) == ~\E s \in RowsRead : s.step_type = kind /\ HasPhoto(s)

FirstUnmetReason ==
    CASE TreesRead = {} -> ReasonNoTree
      [] TreesRead # {} /\ TreeLacksPhoto -> ReasonTrees
      [] TreesRead # {} /\ ~TreeLacksPhoto /\ NoPhotoOfKind("drying") -> ReasonDrying
      [] OTHER -> ReasonFinalBag

OnlyInProgress(kind, b) ==
    /\ \E s \in RowsOfBatch(b) : s.step_type = kind
    /\ \A s \in RowsOfBatch(b) : s.step_type = kind => ~Completed(s)
TreeOnlyInProgress(b) ==
    \E t \in TreesOfFarmA :
        /\ \E s \in RowsOfBatch(b) : s.step_type = "monthly_update" /\ s.tree_id = t.id
        /\ \A s \in RowsOfBatch(b) :
              (s.step_type = "monthly_update" /\ s.tree_id = t.id) => ~Completed(s)

\* C3: a step whose completed_at is null does not count: a batch whose only
\* drying, final_bag or (for some tree) monthly_update steps are steps with
\* completed_at = null is reported not ready, photo or no photo.
C3_InProgressStepsExcluded ==
    (/\ ReadinessReturned
     /\ \/ OnlyInProgress("drying", last.batch_id)
        \/ OnlyInProgress("final_bag", last.batch_id)
        \/ TreeOnlyInProgress(last.batch_id))
        => ~last.result.ready

(***************************************************************************)
(* Specification SpecPhoto: photo locations are validated against the      *)
(* parcels of farm A and photos of its tree are uploaded.                  *)
(***************************************************************************)
Points == {Pt(x, y) : x \in 0..MaxGrid, y \in 0..MaxGrid}

\* Parcels drawn for farm A: two squares of one cell, in opposite corners.
Parcels == {Rect(0, 0, 1, 1), Rect(3, 3, 4, 4)}

\* boundaries: no parcel (a farm row whose boundaries are []), or up to
\* MaxParcels different parcels in any order.
BoundaryLists ==
    {b \in UNION {[1..n -> Parcels] : n \in 0..MaxParcels} :
        \A i, j \in 1..Len(b) : i # j => b[i] # b[j]}

UnknownTree == "99999999-ffff"

InitPhoto ==
    /\ trees = <<Tree1, Tree3>>
    /\ \E b \in BoundaryLists :
          farms = [f \in FarmIds |->
                     IF f = FarmA THEN FarmRow(b) ELSE FarmRow(<<Rect(3, 3, 4, 4)>>)]
    /\ steps = <<>>
    /\ photos = <<>>
    /\ last = Idle
    /\ ui = NoUi

\* A call of validatePhotoLocationInFarm(treeId, photoLocation); fail says
\* which of its two reads fails, if any.
ValidatePhotoLocation ==
    /\ \E treeId \in {Tree1.id, UnknownTree}, loc \in Points,
          fail \in {"none", "tree", "farm", "turf"} :
          /\ treeId = UnknownTree => fail = "none"
          /\ last' = [op |-> "validatePhotoLocationInFarm", tree_id |-> treeId,
                      location |-> loc, fail |-> fail,
                      thrown |-> validatePhotoLocationOutcome(trees, farms, treeId, loc,
                                     fail = "tree", fail = "farm", fail = "turf").thrown,
                      result |-> validatePhotoLocationOutcome(trees, farms, treeId, loc,
                                     fail = "tree", fail = "farm", fail = "turf").value]
    /\ UNCHANGED <<ui, trees, steps, photos, farms>>

PhotoInputs ==
    {[hasLocation |-> TRUE, location |-> l, taken_at |-> NullInt] : l \in Points}
    \cup {[hasLocation |-> FALSE, location |-> NoLocation, taken_at |-> NullInt]}

\* At most one read or write of a call fails.
SingleFailures ==
    {env \in Failures : Cardinality({f \in DOMAIN env : env[f]}) <= 1 /\ ~env.stepInsertFails}

\* A call of uploadTreePhoto(treeId, photoData).
UploadTreePhoto ==
    /\ Len(photos) < MaxPhotos
    /\ \E treeId \in {Tree1.id}, photoData \in PhotoInputs, env \in SingleFailures :
          LET r == uploadTreePhoto(trees, farms, photos, treeId, photoData, env)
          IN  /\ photos' = r.photos
              /\ last' = [op |-> "uploadTreePhoto", tree_id |-> treeId,
                          photoData |-> photoData, thrown |-> r.thrown,
                          error |-> r.error, photo_id |-> r.photo_id,
                          events |-> r.events, stored |-> r.photos # photos]
    /\ UNCHANGED <<ui, trees, steps, farms>>

NextPhoto ==
    \/ ValidatePhotoLocation
    \/ UploadTreePhoto

SpecPhoto == InitPhoto /\ [][NextPhoto]_vars

(***************************************************************************)
(* Properties of uploadTreePhoto and validatePhotoLocationInFarm.          *)
(***************************************************************************)
UploadReturned == last.op = "uploadTreePhoto"
ValidationReturned == last.op = "validatePhotoLocationInFarm"

Attempted(what) == \E i \in 1..Len(last.events) : last.events[i].ev = what

\* The event at position i comes after a validation of the location of
\* this call that returned valid = true.
AfterValidTrue(i) ==
    \E j \in 1..(i - 1) :
        /\ last.events[j].ev = "validate"
        /\ last.events[j].valid
        /\ last.events[j].loc = last.photoData.location

ValidatedFalse ==
    \E j \in 1..Len(last.events) : last.events[j].ev = "validate" /\ ~last.events[j].valid

\* C4: in every call of uploadTreePhoto the IPFS upload and the insert into
\* tree_photos come only after validatePhotoLocationInFarm returned
\* valid = true for the location of the call; when the validation returns
\* valid = false, or no location is given, the call throws and neither the
\* upload nor the insert takes place (nothing is stored).
C4_UploadOnlyAfterValidLocation ==
    UploadReturned =>
        /\ \A i \in 1..Len(last.events) :
              last.events[i].ev \in {"ipfs", "insert"} =>
                 /\ AfterValidTrue(i)
                 /\ \E k \in 1..Len(farms[FarmA].boundaries) :
                       inBufferedPolygon(last.photoData.location, farms[FarmA].boundaries[k])
        /\ (ValidatedFalse \/ ~last.photoData.hasLocation) =>
              /\ last.thrown
              /\ ~Attempted("ipfs")
              /\ ~Attempted("insert")
              /\ ~last.stored
              /\ last.photo_id = NoPhoto

\* Reached: a photo was stored, after a validation that returned true; the
\* farm has a parcel the point is outside of.
C4_Witness ==
    /\ UploadReturned
    /\ last.stored
    /\ last.photo_id = Len(photos)
    /\ Attempted("validate")
    /\ \E i \in 1..Len(farms[FarmA].boundaries) :
          ~inBufferedPolygon(last.photoData.location, farms[FarmA].boundaries[i])

\* The calls whose tree and farm were found.
FarmResolved ==
    /\ ValidationReturned
    /\ last.fail = "none"
    /\ \E t \in Range(trees) : t.id = last.tree_id /\ t.farm_id = FarmA

InSomeBufferedParcel(p) ==
    \E i \in 1..Len(farms[FarmA].boundaries) :
        inBufferedPolygon(p, farms[FarmA].boundaries[i])

\* C6: for a farm with one or more parcels, validatePhotoLocationInFarm
\* returns valid = true exactly when the point lies in the 20 m buffer of at
\* least one parcel (union over the parcels).
C6_ValidIffInSomeBufferedParcel ==
    (FarmResolved /\ Len(farms[FarmA].boundaries) >= 1)
        => (last.result.valid <=> InSomeBufferedParcel(last.location))

\* Reached: a point accepted although it is outside the buffer of the
\* first parcel of the farm.
C6_Witness ==
    /\ FarmResolved
    /\ Len(farms[FarmA].boundaries) >= 2
    /\ last.result.valid
    /\ ~inBufferedPolygon(last.location, farms[FarmA].boundaries[1])

\* C7: for a farm without parcels, validatePhotoLocationInFarm returns
\* valid = false with a reason of its own, not the one of a point outside
\* the boundary, and runs neither the containment test nor the distance
\* computation (the result carries no distance, in particular not Infinity).
C7_NoBoundariesIsADistinctRejection ==
    (FarmResolved /\ Len(farms[FarmA].boundaries) = 0) =>
        /\ ~last.result.valid
        /\ last.result.error = ErrNoBoundaries
        /\ last.result.error # ErrOutside
        /\ last.result.bufferCalls = 0
        /\ last.result.distanceCalls = 0
        /\ last.result.distance2 = NullInt

C7_Witness ==
    /\ FarmResolved
    /\ Len(farms[FarmA].boundaries) = 0
    /\ last.result.error = ErrNoBoundaries

(***************************************************************************)
(* farmProcessService.ts: getBatchPhotos, and hypercertService.ts:         *)
(* formatBatchForHypercert and mintBatchHypercert.                         *)
(***************************************************************************)
\* new Date(p.taken_at).getTime(): a null taken_at gives the epoch.
DateTime(takenAt) == IF takenAt = NullInt THEN 0 ELSE takenAt

\* order('taken_at', {ascending: true}): nulls last, ties by id.
PhotoBefore(photoRows, i, j) ==
    LET a == photoRows[i].taken_at
        b == photoRows[j].taken_at
    IN  IF a = b THEN i < j
        ELSE IF a = NullInt THEN FALSE
        ELSE IF b = NullInt THEN TRUE
        ELSE a < b

RECURSIVE OrderPhotos(_, _)
OrderPhotos(photoRows, ids) ==
    IF ids = {} THEN <<>>
    ELSE LET first == CHOOSE i \in ids : \A j \in ids \ {i} : PhotoBefore(photoRows, i, j)
         IN  <<[id |-> first, taken_at |-> photoRows[first].taken_at]>>
             \o OrderPhotos(photoRows, ids \ {first})

getBatchPhotos(stepRows, photoRows, farmId, batchId, stepsFail, photosFail) ==
    LET stepList == getProcessStepsByFarm(stepRows, farmId, batchId, stepsFail)
        photoIds == {s.photo_id : s \in {r \in Range(stepList) : r.photo_id # NoPhoto}}
    IN  IF photoIds = {} \/ photosFail THEN <<>>
        ELSE OrderPhotos(photoRows, photoIds \cap (1..Len(photoRows)))

\* Insertion of a number into an ascending list: .sort((a, b) => a - b).
RECURSIVE SortAscending(_)
SortAscending(times) ==
    IF times = <<>> THEN <<>>
    ELSE LET rest == SortAscending(Tail(times))
             smaller(t) == t < Head(times)
             notSmaller(t) == ~(t < Head(times))
         IN  SelectSeq(rest, smaller) \o <<Head(times)>> \o SelectSeq(rest, notSmaller)

ErrNoBatchPhoto == "Batch must have at least one photo"
ErrContributor == "Invalid contributor address. Please ensure the farm has a valid farmer wallet address."
ErrPhotoDates == "Invalid photo dates. Please ensure the batch has valid photos with dates."
ErrSdkFormat == "Failed to format hypercert data"
ErrSdkInvalid == "formatHypercertData: valid false"

Metadata(valid, error, workStart, workEnd) ==
    [valid |-> valid, error |-> error, workTimeframeStart |-> workStart,
     workTimeframeEnd |-> workEnd]

\* env: [stepsFail, photosFail, contributor ("ok", "missing"), sdk ("valid",
\* "invalid", "throws")].
\* The same steps without the validation of the two timestamps.
formatDates_NoDateCheck(env, photoDates, workStartTimestamp, workEndTimestamp) ==
        IF Len(photoDates) = 0 THEN Metadata(FALSE, ErrNoBatchPhoto, NullInt, NullInt)
        ELSE IF env.contributor # "ok" THEN Metadata(FALSE, ErrContributor, NullInt, NullInt)
        ELSE IF env.sdk = "throws" THEN Metadata(FALSE, ErrSdkFormat, NullInt, NullInt)
        ELSE IF env.sdk = "invalid" THEN Metadata(FALSE, ErrSdkInvalid, NullInt, NullInt)
        ELSE Metadata(TRUE, NULL, workStartTimestamp, workEndTimestamp)

\* formatBatchForHypercert from the sorted photo dates on.
formatDates(env, photoDates, workStartTimestamp, workEndTimestamp) ==
        IF Len(photoDates) = 0 THEN Metadata(FALSE, ErrNoBatchPhoto, NullInt, NullInt)
        ELSE IF env.contributor # "ok" THEN Metadata(FALSE, ErrContributor, NullInt, NullInt)
        ELSE IF ~TruthyNum(workStartTimestamp) \/ ~TruthyNum(workEndTimestamp)
        THEN Metadata(FALSE, ErrPhotoDates, NullInt, NullInt)
        ELSE IF env.sdk = "throws" THEN Metadata(FALSE, ErrSdkFormat, NullInt, NullInt)
        ELSE IF env.sdk = "invalid" THEN Metadata(FALSE, ErrSdkInvalid, NullInt, NullInt)
        ELSE Metadata(TRUE, NULL, workStartTimestamp, workEndTimestamp)

\* photos.map(p => new Date(p.taken_at).getTime()).sort(...), and the first
\* and the last of them (NullInt for the undefined of an empty list).
photoDatesOf(photoList) ==
    SortAscending([i \in 1..Len(photoList) |-> DateTime(photoList[i].taken_at)])

firstDate(photoDates) == IF Len(photoDates) = 0 THEN NullInt ELSE photoDates[1]
lastDate(photoDates) == IF Len(photoDates) = 0 THEN NullInt ELSE photoDates[Len(photoDates)]

formatPhotoDates(env, photoDates) ==
    formatDates(env, photoDates, firstDate(photoDates), lastDate(photoDates))

formatBatchForHypercert(stepRows, photoRows, farmId, batchId, env) ==
    formatPhotoDates(env,
        photoDatesOf(getBatchPhotos(stepRows, photoRows, farmId, batchId,
                                    env.stepsFail, env.photosFail)))

ErrNotReadyDefault == "Batch is not ready for minting"
ErrClient == "Failed to create Hypercert client. Please ensure your wallet is connected and on the correct network."
ErrInvalidMetadata == "Invalid metadata: ..."
ErrMinting == "Minting failed: ..."

Call(ev, ok) == [ev |-> ev, ok |-> ok]

Minted(success, error, names, events) ==
    [success |-> success, error |-> error, names |-> names, events |-> events]

\* The same function without the readiness gate.
mintChecked_NoGate(env, readiness, metadata) ==
    LET checked == <<Call("isBatchReadyForHypercert", readiness.ready)>>
        connected == checked \o <<Call("createHypercertClient", ~env.clientFails)>>
        formatted == connected \o <<Call("formatBatchForHypercert", metadata.valid)>>
    IN  IF env.clientFails THEN Minted(FALSE, ErrClient, <<>>, connected)
        ELSE IF ~metadata.valid THEN Minted(FALSE, ErrInvalidMetadata, <<>>, formatted)
        ELSE IF env.mintFails
        THEN Minted(FALSE, ErrMinting, <<>>, formatted \o <<Call("mintClaim", FALSE)>>)
        ELSE Minted(TRUE, NULL, <<>>, formatted \o <<Call("mintClaim", TRUE)>>)

\* mintBatchHypercert, given what isBatchReadyForHypercert returns and
\* what formatBatchForHypercert returns when it is called.
mintChecked(env, readiness, metadata) ==
    LET checked == <<Call("isBatchReadyForHypercert", readiness.ready)>>
        connected == checked \o <<Call("createHypercertClient", ~env.clientFails)>>
        formatted == connected \o <<Call("formatBatchForHypercert", metadata.valid)>>
    IN  IF ~readiness.ready
        THEN Minted(FALSE,
                    IF TruthyStr(readiness.reason) THEN readiness.reason
                    ELSE ErrNotReadyDefault,
                    readiness.names, checked)
        ELSE IF env.clientFails THEN Minted(FALSE, ErrClient, <<>>, connected)
        ELSE IF ~metadata.valid THEN Minted(FALSE, ErrInvalidMetadata, <<>>, formatted)
        ELSE IF env.mintFails
        THEN Minted(FALSE, ErrMinting, <<>>, formatted \o <<Call("mintClaim", FALSE)>>)
        ELSE Minted(TRUE, NULL, <<>>, formatted \o <<Call("mintClaim", TRUE)>>)

\* env adds to the one of formatBatchForHypercert: readStepsFail and
\* treesFail (the reads of the readiness check), clientFails, mintFails.
mintBatchHypercert(stepRows, treeRows, photoRows, farmId, batchId, env) ==
    mintChecked(env,
        isBatchReadyForHypercert(stepRows, treeRows, farmId, batchId,
                                 env.readStepsFail, env.treesFail),
        formatBatchForHypercert(stepRows, photoRows, farmId, batchId, env))

(***************************************************************************)
(* Specification SpecMint: steps of farm A are recorded and its batches    *)
(* are minted.                                                             *)
(***************************************************************************)
InitMint ==
    /\ trees = <<Tree1, Tree3>>
    /\ farms = StandardFarms
    /\ steps = <<>>
    /\ photos = <<>>
    /\ last = Idle
    /\ ui = NoUi

MintWorks == [readStepsFail |-> FALSE, treesFail |-> FALSE, clientFails |-> FALSE,
              stepsFail |-> FALSE, photosFail |-> FALSE, contributor |-> "ok",
              sdk |-> "valid", mintFails |-> FALSE]

\* Everything works, or one collaborator of the call fails.
MintEnvs ==
    {MintWorks}
    \cup {[MintWorks EXCEPT ![k] = TRUE] :
            k \in {"readStepsFail", "treesFail", "clientFails", "stepsFail",
                   "photosFail", "mintFails"}}
    \cup {[MintWorks EXCEPT !.contributor = "missing"]}
    \cup {[MintWorks EXCEPT !.sdk = v] : v \in {"invalid", "throws"}}

\* A call of mintBatchHypercert(batch, farmA).
MintBatchHypercert ==
    /\ \E batchId \in BatchIds, env \in MintEnvs :
          LET r == mintBatchHypercert(steps, trees, photos, FarmA, batchId, env)
          IN  last' = [op |-> "mintBatchHypercert", batch_id |-> batchId,
                       readStepsFail |-> env.readStepsFail, treesFail |-> env.treesFail,
                       success |-> r.success, error |-> r.error, names |-> r.names,
                       events |-> r.events]
    /\ UNCHANGED <<ui, trees, steps, photos, farms>>

NextMint ==
    \/ CreateProcessStep
    \/ CompleteFarmProcess
    \/ StorageInsertStep
    \/ MintBatchHypercert

SpecMint == InitMint /\ [][NextMint]_vars

(***************************************************************************)
(* Properties of mintBatchHypercert.                                       *)
(***************************************************************************)
MintReturned == last.op = "mintBatchHypercert"

Called(what) == \E i \in 1..Len(last.events) : last.events[i].ev = what

\* What isBatchReadyForHypercert answers on the stored rows for the batch
\* and the reads of the call of last.
ReadinessOfCall ==
    isBatchReadyForHypercert(steps, trees, FarmA, last.batch_id,
                             last.readStepsFail, last.treesFail)

\* C5: in every call of mintBatchHypercert, client.mintClaim is called only
\* after isBatchReadyForHypercert returned ready = true and, after that,
\* formatBatchForHypercert returned valid metadata; when the batch is not
\* ready the call returns success = false with the reason of the readiness
\* check, and the client is not created, no metadata is built and nothing
\* is minted.
C5_MintOnlyWhenReadyAndValid ==
    MintReturned =>
        /\ \A i \in 1..Len(last.events) :
              last.events[i].ev = "mintClaim" =>
                 \E j \in 1..(i - 1), k \in 1..(i - 1) :
                    /\ j < k
                    /\ last.events[j] = Call("isBatchReadyForHypercert", TRUE)
                    /\ last.events[k] = Call("formatBatchForHypercert", TRUE)
                    /\ ReadinessOfCall.ready
        /\ ~ReadinessOfCall.ready =>
              /\ ~last.success
              /\ last.error = ReadinessOfCall.reason
              /\ last.names = ReadinessOfCall.names
              /\ ~Called("createHypercertClient")
              /\ ~Called("formatBatchForHypercert")
              /\ ~Called("mintClaim")

\* Reached: a batch was minted.
C5_Witness ==
    /\ MintReturned
    /\ last.success
    /\ Called("mintClaim")

\* Reached: a mint refused because the batch is not ready.
C5_WitnessNotReady ==
    /\ MintReturned
    /\ ~ReadinessOfCall.ready
    /\ last.error = ReasonDrying

(***************************************************************************)
(* farmProcessService.ts: getTreeMonthlyStatus.                            *)
(* The result is the list of the values of treeStatusMap, in insertion     *)
(* order: [tree_id, tree_number, completed_months, missing_months].        *)
(***************************************************************************)
MonthsPerYear == 12

\* Array.from({length: 12}, (_, i) => i + 1)
allMonths == [i \in 1..MonthsPerYear |-> i]

\* The forEach over monthlySteps, for the entry of one tree: step_number is
\* pushed unless completed_months includes it already.
RECURSIVE PushMonths(_, _, _)
PushMonths(monthlySteps, treeId, completed) ==
    IF monthlySteps = <<>> THEN completed
    ELSE LET step == Head(monthlySteps)
         IN  IF step.tree_id = treeId /\ step.step_number \notin Range(completed)
             THEN PushMonths(Tail(monthlySteps), treeId, Append(completed, step.step_number))
             ELSE PushMonths(Tail(monthlySteps), treeId, completed)

TreeStatus(tree, completed) ==
    LET notCompleted(month) == month \notin Range(completed)
    IN  [tree_id |-> tree.id, tree_number |-> tree.tree_number,
         completed_months |-> SortAscending(completed),
         missing_months |-> SelectSeq(allMonths, notCompleted)]

\* The same function with the steps in progress counted as well.
getTreeMonthlyStatus_InProgressCounted(stepRows, treeRows, farmId, batchId, stepsFail, treesFail) ==
    LET treeList == getTreesByFarm(treeRows, farmId, treesFail)
        stepList == getProcessStepsByFarm(stepRows, farmId, batchId, stepsFail)
        isMonthly(s) == /\ s.step_type = "monthly_update"
                        /\ TruthyStr(s.tree_id)
                        /\ TruthyNum(s.step_number)
        monthlySteps == SelectSeq(stepList, isMonthly)
    IN  [i \in 1..Len(treeList) |->
            TreeStatus(treeList[i], PushMonths(monthlySteps, treeList[i].id, <<>>))]

\* The same function with an entry made only for the trees that have a
\* monthly step.
getTreeMonthlyStatus_NoInitialEntries(stepRows, treeRows, farmId, batchId, stepsFail, treesFail) ==
    LET treeList == getTreesByFarm(treeRows, farmId, treesFail)
        stepList == getProcessStepsByFarm(stepRows, farmId, batchId, stepsFail)
        isMonthly(s) == /\ s.step_type = "monthly_update"
                        /\ s.completed_at # NullInt
                        /\ TruthyStr(s.tree_id)
                        /\ TruthyNum(s.step_number)
        monthlySteps == SelectSeq(stepList, isMonthly)
        hasStep(t) == \E s \in Range(monthlySteps) : s.tree_id = t.id
        withSteps == SelectSeq(treeList, hasStep)
    IN  [i \in 1..Len(withSteps) |->
            TreeStatus(withSteps[i], PushMonths(monthlySteps, withSteps[i].id, <<>>))]

\* batchId is NULL when the caller passes none.  An entry is made for every
\* tree of the tree list; a step whose tree_id is not in treeIds finds no
\* entry and is skipped.
getTreeMonthlyStatus(stepRows, treeRows, farmId, batchId, stepsFail, treesFail) ==
    LET treeList == getTreesByFarm(treeRows, farmId, treesFail)
        stepList == getProcessStepsByFarm(stepRows, farmId, batchId, stepsFail)
        isMonthly(s) == /\ s.step_type = "monthly_update"
                        /\ s.completed_at # NullInt
                        /\ TruthyStr(s.tree_id)
                        /\ TruthyNum(s.step_number)
        monthlySteps == SelectSeq(stepList, isMonthly)
        treeIds == {t.id : t \in Range(treeList)}
        ofFarm(s) == s.tree_id \in treeIds
    IN  [i \in 1..Len(treeList) |->
            TreeStatus(treeList[i],
                       PushMonths(SelectSeq(monthlySteps, ofFarm), treeList[i].id, <<>>))]

(***************************************************************************)
(* Specification SpecMonthly: getTreeMonthlyStatus over the tables that    *)
(* farm_process_steps can hold.  A row kind is a row without its           *)
(* timestamps; the rows referencing Tree3 reference a tree of farm B.      *)
(***************************************************************************)
RowKind(farmId, batchId, treeId, stepType, stepNumber, completed) ==
    [farm_id |-> farmId, batch_id |-> batchId, tree_id |-> treeId,
     step_type |-> stepType, step_number |-> stepNumber, completed |-> completed]

RowKinds ==
    { RowKind(FarmA, "batch1", Tree1.id, "monthly_update", 1, TRUE),
      RowKind(FarmA, "batch1", Tree1.id, "monthly_update", 2, TRUE),
      RowKind(FarmA, "batch2", Tree1.id, "monthly_update", 1, TRUE),
      RowKind(FarmA, "batch1", Tree1.id, "monthly_update", 13, TRUE),
      RowKind(FarmA, "batch1", Tree1.id, "monthly_update", 0, TRUE),
      RowKind(FarmA, "batch1", Tree1.id, "monthly_update", NullInt, TRUE),
      RowKind(FarmA, "batch1", Tree1.id, "monthly_update", 3, FALSE),
      RowKind(FarmA, "batch1", Tree3.id, "monthly_update", 4, TRUE),
      RowKind(FarmA, "batch1", NULL, "monthly_update", 5, TRUE),
      RowKind(FarmA, "batch1", Tree1.id, "drying", 6, TRUE),
      RowKind(FarmA, "batch1", Tree2.id, "monthly_update", 2, TRUE),
      RowKind(FarmB, "batch1", Tree3.id, "monthly_update", 7, TRUE) }

\* The tables of at most MaxSteps rows of different kinds (the UNIQUE
\* constraint), stamped in insertion order.
StepTables ==
    {[i \in 1..Len(k) |->
         StepRow(k[i].farm_id, k[i].batch_id, k[i].tree_id, k[i].step_type,
                 k[i].step_number, NoPhoto, IF k[i].completed THEN i ELSE NullInt, i)] :
       k \in {q \in UNION {[1..n -> RowKinds] : n \in 0..MaxSteps} :
                 \A i, j \in 1..Len(q) : i # j => q[i] # q[j]}}

InitMonthly ==
    /\ trees \in TreeTables
    /\ farms = StandardFarms
    /\ steps \in StepTables
    /\ photos = <<>>
    /\ last = Idle
    /\ ui = NoUi

\* A call of getTreeMonthlyStatus(FarmA, batchId?); fail says which of its
\* two reads fails, if any.
GetTreeMonthlyStatus ==
    /\ \E batchId \in BatchIds \cup {NULL}, fail \in {"none", "steps", "trees"} :
          last' = [op |-> "getTreeMonthlyStatus", batch_id |-> batchId, fail |-> fail,
                   result |-> getTreeMonthlyStatus(steps, trees, FarmA, batchId,
                                                   fail = "steps", fail = "trees")]
    /\ UNCHANGED <<ui, trees, steps, photos, farms>>

NextMonthly == GetTreeMonthlyStatus

SpecMonthly == InitMonthly /\ [][NextMonthly]_vars

(***************************************************************************)
(* Properties of getTreeMonthlyStatus, stated on the stored rows.          *)
(***************************************************************************)
MonthlyReturned == last.op = "getTreeMonthlyStatus"

\* The rows of farm A the call read: those of its batch when it names one.
MonthlyRowsRead ==
    IF last.fail = "steps" THEN {}
    ELSE {s \in Range(steps) :
            /\ s.farm_id = FarmA
            /\ (last.batch_id # NULL => s.batch_id = last.batch_id)}

\* A completed monthly update with a month number, of tree treeId.
QualifiesFor(s, treeId) ==
    /\ s.step_type = "monthly_update"
    /\ s.completed_at # NullInt
    /\ s.step_number # NullInt
    /\ s.tree_id = treeId

EntriesOf(treeId) == {i \in 1..Len(last.result) : last.result[i].tree_id = treeId}

\* C8: getTreeMonthlyStatus returns exactly one entry per tree of the farm,
\* trees without any step included, and the entry of a tree with no
\* qualifying step has no completed month and the twelve months 1..12
\* missing.
C8_OneEntryPerTreeAllMissingWithoutSteps ==
    (MonthlyReturned /\ last.fail # "trees") =>
        /\ \A t \in TreesOfFarmA : Cardinality(EntriesOf(t.id)) = 1
        /\ Len(last.result) = Cardinality(TreesOfFarmA)
        /\ \A i \in 1..Len(last.result) :
              (~\E s \in MonthlyRowsRead : QualifiesFor(s, last.result[i].tree_id)) =>
                 /\ last.result[i].completed_months = <<>>
                 /\ last.result[i].missing_months = [m \in 1..12 |-> m]

\* Reached: a farm with two trees, one with a completed month and one
\* without any step, which has the twelve months missing.
C8_Witness ==
    /\ MonthlyReturned
    /\ last.fail = "none"
    /\ Cardinality(TreesOfFarmA) = 2
    /\ \E i, j \in 1..Len(last.result) :
          /\ last.result[i].completed_months # <<>>
          /\ last.result[j].completed_months = <<>>
          /\ Len(last.result[j].missing_months) = 12
          /\ ~\E s \in Range(steps) : s.tree_id = last.result[j].tree_id

IsStrictlyAscending(seq) == \A i, j \in 1..Len(seq) : i < j => seq[i] < seq[j]

\* C9: in every entry returned by getTreeMonthlyStatus, for any step
\* records, completed_months is sorted ascending without duplicates and
\* holds only month numbers of 1..12, and missing_months is the complement
\* of completed_months in 1..12.
C9_MonthsSortedInRangeAndComplementary ==
    MonthlyReturned =>
        \A i \in 1..Len(last.result) :
            LET entry == last.result[i]
            IN  /\ IsStrictlyAscending(entry.completed_months)
                /\ Range(entry.completed_months) \subseteq 1..12
                /\ IsStrictlyAscending(entry.missing_months)
                /\ Range(entry.missing_months) = (1..12) \ Range(entry.completed_months)

\* The rows of the table whose tree is a tree of farm A, or no tree.
WithoutForeignTrees ==
    LET ofFarm(s) == s.tree_id = NULL \/ \E t \in TreesOfFarmA : t.id = s.tree_id
    IN  SelectSeq(steps, ofFarm)

\* C10: a month is completed for a tree only through a monthly_update step
\* with completed_at and step_number set whose tree_id is that tree, a tree
\* of the farm; steps of trees outside the farm's tree set add no entry,
\* change no entry and do not make the call fail.
C10_OnlyQualifyingStepsOfFarmTreesCount ==
    (MonthlyReturned /\ last.fail = "none") =>
        /\ \A i \in 1..Len(last.result) :
              /\ \E t \in TreesOfFarmA : t.id = last.result[i].tree_id
              /\ \A m \in Range(last.result[i].completed_months) :
                    \E s \in MonthlyRowsRead :
                        /\ QualifiesFor(s, last.result[i].tree_id)
                        /\ s.step_number = m
        /\ Len(last.result) = Cardinality(TreesOfFarmA)
        /\ last.result = getTreeMonthlyStatus(WithoutForeignTrees, trees, FarmA,
                                              last.batch_id, FALSE, FALSE)

\* Reached: the table holds a completed monthly step of farm A for a tree
\* of farm B, and a step in progress, next to a month that counts.
C10_Witness ==
    /\ MonthlyReturned
    /\ last.fail = "none"
    /\ \E s \in MonthlyRowsRead : QualifiesFor(s, Tree3.id)
    /\ \E s \in MonthlyRowsRead : s.completed_at = NullInt
    /\ \E i \in 1..Len(last.result) : last.result[i].completed_months # <<>>

(***************************************************************************)
(* farmProcessService.ts: getBatchesByFarm.                                *)
(* The result is a list of [batch_id, farm_id, created_at, steps].         *)
(***************************************************************************)
\* typeOrder[step_type] || 99
typeOrder(stepType) ==
    CASE stepType = "monthly_update" -> 1
      [] stepType = "drying" -> 2
      [] stepType = "final_bag" -> 3
      [] stepType = "completed" -> 4
      [] OTHER -> 99

\* step_number || 0
numberOrZero(stepNumber) == IF TruthyNum(stepNumber) THEN stepNumber ELSE 0

\* The same comparator with the rank of the step type left out.
compareSteps_NumberOnly(a, b) ==
    numberOrZero(a.step_number) - numberOrZero(b.step_number)

\* The comparator of steps.sort: negative when a goes before b.
compareSteps(a, b) ==
    IF typeOrder(a.step_type) # typeOrder(b.step_type)
    THEN typeOrder(a.step_type) - typeOrder(b.step_type)
    ELSE numberOrZero(a.step_number) - numberOrZero(b.step_number)

\* The same insertion by a sort that is not stable: the element goes after
\* the elements that compare equal to it as well.
insertStep_AfterEquals(step, sorted) ==
    LET notAfter(o) == compareSteps(o, step) <= 0
        after(o) == compareSteps(o, step) > 0
    IN  SelectSeq(sorted, notAfter) \o <<step>> \o SelectSeq(sorted, after)

\* One element put in front of a sorted list, as the stable Array.sort
\* places it: after the elements that compare before it.
insertStep(step, sorted) ==
    LET before(o) == compareSteps(o, step) < 0
        notBefore(o) == ~(compareSteps(o, step) < 0)
    IN  SelectSeq(sorted, before) \o <<step>> \o SelectSeq(sorted, notBefore)

RECURSIVE sortSteps(_)
sortSteps(stepList) ==
    IF stepList = <<>> THEN <<>>
    ELSE insertStep(Head(stepList), sortSteps(Tail(stepList)))

\* The keys of batchMap in insertion order: the batch ids by first
\* appearance in the step list.
RECURSIVE batchKeys(_, _)
batchKeys(stepList, seen) ==
    IF stepList = <<>> THEN seen
    ELSE IF Head(stepList).batch_id \in Range(seen)
         THEN batchKeys(Tail(stepList), seen)
         ELSE batchKeys(Tail(stepList), Append(seen, Head(stepList).batch_id))

\* The same reduce keeping the first step of the list.
earliestStep_FirstOfList(stepList, earliest) == earliest

\* steps.reduce((earliest, current) => current.created_at < earliest.created_at
\*                                       ? current : earliest)
RECURSIVE earliestStep(_, _)
earliestStep(stepList, earliest) ==
    IF stepList = <<>> THEN earliest
    ELSE IF Head(stepList).created_at < earliest.created_at
         THEN earliestStep(Tail(stepList), Head(stepList))
         ELSE earliestStep(Tail(stepList), earliest)

ProcessBatch(batchId, farmId, groupSteps) ==
    [batch_id |-> batchId, farm_id |-> farmId,
     created_at |-> earliestStep(Tail(groupSteps), Head(groupSteps)).created_at,
     steps |-> sortSteps(groupSteps)]

\* The same insertion for an ascending sort.
insertBatch_Ascending(batch, sorted) ==
    LET older(o) == o.created_at < batch.created_at
        notOlder(o) == ~(o.created_at < batch.created_at)
    IN  SelectSeq(sorted, older) \o <<batch>> \o SelectSeq(sorted, notOlder)

\* One batch put in front of a sorted list by batches.sort((a, b) =>
\* b.created_at - a.created_at): after the batches that are newer.
insertBatch(batch, sorted) ==
    LET newer(o) == o.created_at > batch.created_at
        notNewer(o) == ~(o.created_at > batch.created_at)
    IN  SelectSeq(sorted, newer) \o <<batch>> \o SelectSeq(sorted, notNewer)

RECURSIVE sortBatches(_)
sortBatches(batches) ==
    IF batches = <<>> THEN <<>>
    ELSE insertBatch(Head(batches), sortBatches(Tail(batches)))

\* The batches of a step list, in the order of batchMap.
batchesOf(stepList, farmId, keys) ==
    [i \in 1..Len(keys) |->
        LET inBatch(s) == s.batch_id = keys[i]
        IN  ProcessBatch(keys[i], farmId, SelectSeq(stepList, inBatch))]

groupBatches(stepList, farmId) ==
    sortBatches(batchesOf(stepList, farmId, batchKeys(stepList, <<>>)))

getBatchesByFarm(stepRows, farmId, queryFails) ==
    groupBatches(getProcessStepsByFarm(stepRows, farmId, NULL, queryFails), farmId)

(***************************************************************************)
(* Specification SpecBatches: getBatchesByFarm over the tables that        *)
(* farm_process_steps can hold.                                            *)
(***************************************************************************)
BatchRowKinds ==
    { RowKind(FarmA, "batch1", Tree1.id, "monthly_update", 1, TRUE),
      RowKind(FarmA, "batch1", Tree1.id, "monthly_update", 3, TRUE),
      RowKind(FarmA, "batch1", Tree1.id, "monthly_update", NullInt, TRUE),
      RowKind(FarmA, "batch1", Tree2.id, "monthly_update", 3, FALSE),
      RowKind(FarmA, "batch1", Tree1.id, "drying", NullInt, TRUE),
      RowKind(FarmA, "batch1", Tree1.id, "final_bag", NullInt, TRUE),
      RowKind(FarmA, "batch1", NULL, "completed", NullInt, TRUE),
      RowKind(FarmA, "batch2", Tree1.id, "monthly_update", 1, TRUE),
      RowKind(FarmA, "batch2", Tree1.id, "drying", NullInt, FALSE),
      RowKind(FarmB, "batch1", Tree3.id, "monthly_update", 1, TRUE) }

\* created_at of the i-th row inserted: every row at its own instant, or
\* two rows at a time at the same instant.
Stamp(coarse, i) == IF coarse THEN (i + 1) \div 2 ELSE i

BatchStepTables ==
    {[i \in 1..Len(k) |->
         StepRow(k[i].farm_id, k[i].batch_id, k[i].tree_id, k[i].step_type,
                 k[i].step_number, NoPhoto,
                 IF k[i].completed THEN Stamp(coarse, i) ELSE NullInt, Stamp(coarse, i))] :
       k \in {q \in UNION {[1..n -> BatchRowKinds] : n \in 0..MaxBatchRows} :
                 \A i, j \in 1..Len(q) : i # j => q[i] # q[j]},
       coarse \in BOOLEAN}

InitBatches ==
    /\ trees = <<Tree1, Tree2, Tree3>>
    /\ farms = StandardFarms
    /\ steps \in BatchStepTables
    /\ photos = <<>>
    /\ last = Idle
    /\ ui = NoUi

\* A call of getBatchesByFarm(FarmA), whose read may fail.
GetBatchesByFarm ==
    /\ \E queryFails \in BOOLEAN :
          last' = [op |-> "getBatchesByFarm", fail |-> queryFails,
                   result |-> getBatchesByFarm(steps, FarmA, queryFails)]
    /\ UNCHANGED <<ui, trees, steps, photos, farms>>

\* A second call of getBatchesByFarm(FarmA) after one that returned, on the
\* rows as they are; both reads succeed.
GetBatchesByFarmAgain ==
    /\ last.op = "getBatchesByFarm"
    /\ ~last.fail
    /\ last' = [op |-> "getBatchesByFarmAgain", fail |-> FALSE, first |-> last.result,
                result |-> getBatchesByFarm(steps, FarmA, FALSE)]
    /\ UNCHANGED <<ui, trees, steps, photos, farms>>

NextBatches == GetBatchesByFarm \/ GetBatchesByFarmAgain

SpecBatches == InitBatches /\ [][NextBatches]_vars

(***************************************************************************)
(* Properties of getBatchesByFarm, stated on the stored rows.              *)
(***************************************************************************)
BatchesReturned == last.op = "getBatchesByFarm"

RowsOfFarmA == {s \in Range(steps) : s.farm_id = FarmA}

\* The places (batch, position) of the result that hold the row.
PlacesOf(row) ==
    {<<b, i>> \in (1..Len(last.result)) \X (1..MaxBatchRows + 1) :
        /\ i <= Len(last.result[b].steps)
        /\ last.result[b].steps[i] = row}

\* C11: getBatchesByFarm partitions the steps of the farm by batch_id:
\* every step, completed or not, is in exactly one returned batch, the one
\* with its batch_id; no batch is empty; no two batches have the same
\* batch_id; and the created_at of a batch is the minimum created_at of
\* its steps.
C11_BatchesPartitionTheSteps ==
    (BatchesReturned /\ ~last.fail) =>
        /\ \A row \in RowsOfFarmA :
              /\ Cardinality(PlacesOf(row)) = 1
              /\ \A place \in PlacesOf(row) : last.result[place[1]].batch_id = row.batch_id
        /\ \A b \in 1..Len(last.result) :
              /\ Len(last.result[b].steps) > 0
              /\ Range(last.result[b].steps) \subseteq RowsOfFarmA
              /\ \A c \in 1..Len(last.result) :
                    b # c => last.result[b].batch_id # last.result[c].batch_id
              /\ \E s \in Range(last.result[b].steps) :
                    last.result[b].created_at = s.created_at
              /\ \A s \in Range(last.result[b].steps) :
                    last.result[b].created_at <= s.created_at

\* Reached: two batches, a step in progress among them, and a batch whose
\* first listed step is not its earliest.
C11_Witness ==
    /\ BatchesReturned
    /\ ~last.fail
    /\ Len(last.result) = 2
    /\ \E s \in RowsOfFarmA : s.completed_at = NullInt
    /\ \E b \in 1..Len(last.result) :
          last.result[b].steps[1].created_at > last.result[b].created_at

\* C12: in a batch returned by getBatchesByFarm, among the steps of one
\* kind a step without step_number comes after every step with one.
C12_UnsetStepNumberSortsLast ==
    BatchesReturned =>
        \A b \in 1..Len(last.result) :
            \A i, j \in 1..Len(last.result[b].steps) :
                ( /\ last.result[b].steps[i].step_type = last.result[b].steps[j].step_type
                  /\ last.result[b].steps[i].step_number = NullInt
                  /\ last.result[b].steps[j].step_number # NullInt ) => j < i

StepLabel(s) == <<s.step_type, s.step_number>>

\* The scenario of the ordering: final_bag, monthly 3, monthly 1, drying.
ScenarioSteps ==
    << StepRow(FarmA, "batch1", Tree1.id, "final_bag", NullInt, NoPhoto, 1, 1),
       StepRow(FarmA, "batch1", Tree1.id, "monthly_update", 3, NoPhoto, 2, 2),
       StepRow(FarmA, "batch1", Tree1.id, "monthly_update", 1, NoPhoto, 3, 3),
       StepRow(FarmA, "batch1", Tree1.id, "drying", NullInt, NoPhoto, 4, 4) >>

ScenarioOrdered ==
    << <<"monthly_update", 1>>, <<"monthly_update", 3>>,
       <<"drying", NullInt>>, <<"final_bag", NullInt>> >>

Labels(stepList) == [i \in 1..Len(stepList) |-> StepLabel(stepList[i])]

\* C13: in every batch returned by getBatchesByFarm the monthly_update
\* steps come before the drying steps, these before the final_bag steps,
\* these before the completed steps, and the monthly_update steps that
\* have a step number are in ascending order of it; the steps final_bag,
\* monthly 3, monthly 1, drying are ordered monthly 1, monthly 3, drying,
\* final_bag.
C13_StepsOrderedByKindThenNumber ==
    /\ Labels(sortSteps(ScenarioSteps)) = ScenarioOrdered
    /\ BatchesReturned =>
          /\ \A b \in 1..Len(last.result) :
                \A i, j \in 1..Len(last.result[b].steps) :
                    i < j =>
                       LET a == last.result[b].steps[i]
                           c == last.result[b].steps[j]
                       IN  /\ typeOrder(a.step_type) <= typeOrder(c.step_type)
                           /\ ( /\ a.step_type = "monthly_update"
                                /\ c.step_type = "monthly_update"
                                /\ a.step_number # NullInt
                                /\ c.step_number # NullInt )
                              => a.step_number <= c.step_number
          /\ (steps = ScenarioSteps /\ ~last.fail) =>
                /\ Len(last.result) = 1
                /\ Labels(last.result[1].steps) = ScenarioOrdered

\* Reached: the batches of the table of the scenario.
C13_Witness ==
    /\ BatchesReturned
    /\ ~last.fail
    /\ steps = ScenarioSteps
    /\ Labels(last.result[1].steps) = ScenarioOrdered

\* C14: the batches returned by getBatchesByFarm are in descending order
\* of created_at: of two consecutive batches the first is not older than
\* the second.
C14_BatchesNewestFirst ==
    BatchesReturned =>
        \A b \in 1..(Len(last.result) - 1) :
            last.result[b].created_at >= last.result[b + 1].created_at

\* Reached: two batches with different creation times, the newer first,
\* the older one holding the step the query lists first.
C14_Witness ==
    /\ BatchesReturned
    /\ Len(last.result) = 2
    /\ last.result[1].created_at > last.result[2].created_at
    /\ getProcessStepsByFarm(steps, FarmA, NULL, FALSE)[1].batch_id
          = last.result[2].batch_id

(***************************************************************************)
(* Specification SpecWindow: formatBatchForHypercert and                   *)
(* mintBatchHypercert over batches whose steps reference stored photos.    *)
(* taken_at is a time in seconds since the epoch (0 is the epoch itself)   *)
(* or null (the column is nullable); the values of a timestamp column      *)
(* always parse.                                                           *)
(***************************************************************************)
TakenAtValues == {NullInt, 0, 1, 2}

PhotoTables ==
    UNION {[1..n -> {[tree_id |-> Tree1.id, taken_at |-> t] : t \in TakenAtValues}] :
              n \in 0..MaxPhotoRows}

\* batch1 of farm A: a monthly update of T-1, a drying and a final_bag
\* step, each with the photo it references (NoPhoto for none).
WindowSteps(monthlyPhoto, dryingPhoto, finalBagPhoto) ==
    << StepRow(FarmA, "batch1", Tree1.id, "monthly_update", 1, monthlyPhoto, 1, 1),
       StepRow(FarmA, "batch1", Tree1.id, "drying", NullInt, dryingPhoto, 2, 2),
       StepRow(FarmA, "batch1", Tree1.id, "final_bag", NullInt, finalBagPhoto, 3, 3) >>

InitWindow ==
    /\ trees = <<Tree1, Tree3>>
    /\ farms = StandardFarms
    /\ photos \in PhotoTables
    /\ \E a, b, c \in 0..MaxPhotoRows :
          /\ a <= Len(photos) /\ b <= Len(photos) /\ c <= Len(photos)
          /\ steps = WindowSteps(a, b, c)
    /\ last = Idle
    /\ ui = NoUi

\* The collaborators of formatBatchForHypercert work, or one of them fails.
FormatEnvs ==
    {env \in MintEnvs : ~env.readStepsFail /\ ~env.treesFail /\ ~env.clientFails /\ ~env.mintFails}

\* A call of formatBatchForHypercert(batch, farmA).
FormatBatchForHypercert ==
    /\ \E batchId \in BatchIds, env \in FormatEnvs :
          last' = [op |-> "formatBatchForHypercert", batch_id |-> batchId, env |-> env,
                   result |-> formatBatchForHypercert(steps, photos, FarmA, batchId, env)]
    /\ UNCHANGED <<ui, trees, steps, photos, farms>>

NextWindow ==
    \/ FormatBatchForHypercert
    \/ MintBatchHypercert

SpecWindow == InitWindow /\ [][NextWindow]_vars

(***************************************************************************)
(* Properties of the work window, stated on the stored photos.             *)
(***************************************************************************)
FormatReturned == last.op = "formatBatchForHypercert"

\* The photos of the batch of the last call, and the capture times among
\* them.
BatchPhotoIds ==
    {s.photo_id : s \in {r \in Range(steps) :
        r.farm_id = FarmA /\ r.batch_id = last.batch_id /\ r.photo_id # NoPhoto}}

CaptureTimes == {photos[i].taken_at : i \in BatchPhotoIds} \ {NullInt}

\* C15: for a batch with at least one photo that has a capture time,
\* formatBatchForHypercert derives a work window that starts at the
\* earliest and ends at the latest capture time of the photos of the batch,
\* photos without one discarded; start <= end, and start = end for a batch
\* of one photo.
C15_WindowIsEarliestToLatestCapture ==
    (FormatReturned /\ last.env = MintWorks /\ CaptureTimes # {}) =>
        /\ last.result.valid
        /\ last.result.workTimeframeStart \in CaptureTimes
        /\ last.result.workTimeframeEnd \in CaptureTimes
        /\ \A t \in CaptureTimes :
              last.result.workTimeframeStart <= t /\ t <= last.result.workTimeframeEnd
        /\ last.result.workTimeframeStart <= last.result.workTimeframeEnd
        /\ Cardinality(BatchPhotoIds) = 1 =>
              last.result.workTimeframeStart = last.result.workTimeframeEnd

\* C16: for a batch without photos, or whose photos all lack a capture
\* time, formatBatchForHypercert returns valid = false with an error
\* message and no window, and mintBatchHypercert returns success = false
\* without calling mintClaim.
C16_NoWindowWithoutCaptureTimes ==
    /\ (FormatReturned /\ CaptureTimes = {}) =>
          /\ ~last.result.valid
          /\ last.result.error # NULL
          /\ last.result.workTimeframeStart = NullInt
          /\ last.result.workTimeframeEnd = NullInt
    /\ (MintReturned /\ CaptureTimes = {}) =>
          /\ ~last.success
          /\ last.error # NULL
          /\ ~Called("mintClaim")

\* Reached: a batch that is ready, whose photos all lack a capture time,
\* refused at the metadata.
C16_Witness ==
    /\ MintReturned
    /\ BatchPhotoIds # {}
    /\ CaptureTimes = {}
    /\ last.events[Len(last.events)] = Call("formatBatchForHypercert", FALSE)
    /\ last.error = ErrInvalidMetadata

(***************************************************************************)
(* Specification SpecLocations: the three readers of tree locations over   *)
(* tables whose rows hold a location in any representation.                *)
(***************************************************************************)
LocWith(shape, x, y, shape2, x2, y2) ==
    [shape |-> shape, x |-> x, y |-> y, also |-> [shape |-> shape2, x |-> x2, y |-> y2]]

\* One value of every shape with two numbers and with a first component
\* that is not a number, and objects with two pairs of keys.
LocationValues ==
    {Loc(shape, x, 2) : shape \in ObjectShapes \cup StringShapes, x \in {1, NaN}}
        \cup {LocWith("latlng", x, 2, "xy", 3, 4) : x \in {1, NaN}}
        \cup {LocWith("latlng", x, 2, "latitude", 3, 4) : x \in {1, NaN}}
        \cup {LocWith("latitude", 1, 2, "xy", 3, 4)}

LocatedTables ==
    {<<TreeRow(Tree1.id, FarmA, "T-1", l1), Tree3>> : l1 \in LocationValues}
        \cup {<<TreeRow(Tree1.id, FarmA, "T-1", l1), TreeRow(Tree2.id, FarmA, NULL, l2), Tree3>> :
                 l1 \in LocationValues, l2 \in LocationValues}

InitLocations ==
    /\ trees \in LocatedTables
    /\ steps = <<>>
    /\ photos = <<>>
    /\ farms = StandardFarms
    /\ last = Idle
    /\ ui = NoUi

\* What a reader returns of a tree: its id and the location it parsed.
Located(tree, location) == [id |-> tree.id, lat |-> location.lat, lng |-> location.lng]

\* The trees of the value getTreesByFarm returns, with their locations.
treesByFarmLocated(treeList) ==
    [i \in 1..Len(treeList) |-> Located(treeList[i], treeLocationInList(treeList[i].location))]

\* The tree of the value getTreeById returns, as a list of one or none.
treeByIdLocated(treeRows, treeId, queryFails) ==
    LET hit == {i \in 1..Len(treeRows) : treeRows[i].id = treeId}
    IN  IF ~getTreeById(treeRows, treeId, queryFails).found THEN <<>>
        ELSE LET t == treeRows[CHOOSE i \in hit : TRUE]
             IN  <<Located(t, pointToLocation(t.location))>>

\* The trees of the value getFarmById returns: the rows of the farm, newest
\* first, parsed by parseLocation, rows that do not parse dropped; no trees
\* when the tree query fails.
parsedTrees(treeRows, farmId, treesFail) ==
    IF treesFail THEN <<>>
    ELSE LET own(t) == t.farm_id = farmId /\ parseLocation(t.location).ok
             kept == SelectSeq(Reverse(treeRows), own)
         IN  [i \in 1..Len(kept) |-> Located(kept[i], parseLocation(kept[i].location))]

GetTreesByFarm ==
    /\ \E farmId \in FarmIds, queryFails \in BOOLEAN :
          last' = [op |-> "getTreesByFarm", farm_id |-> farmId, fail |-> queryFails,
                   trees |-> treesByFarmLocated(getTreesByFarm(trees, farmId, queryFails))]
    /\ UNCHANGED <<ui, trees, steps, photos, farms>>

GetTreeById ==
    /\ \E treeId \in {Tree1.id, Tree2.id, Tree3.id}, queryFails \in BOOLEAN :
          last' = [op |-> "getTreeById", tree_id |-> treeId, fail |-> queryFails,
                   trees |-> treeByIdLocated(trees, treeId, queryFails)]
    /\ UNCHANGED <<ui, trees, steps, photos, farms>>

GetFarmById ==
    /\ \E farmId \in FarmIds, queryFails \in BOOLEAN, treesFail \in BOOLEAN :
          last' = [op |-> "getFarmById", farm_id |-> farmId, fail |-> queryFails \/ treesFail,
                   found |-> getFarmById(farms, farmId, queryFails).found,
                   trees |-> IF getFarmById(farms, farmId, queryFails).found
                             THEN parsedTrees(trees, farmId, treesFail) ELSE <<>>]
    /\ UNCHANGED <<ui, trees, steps, photos, farms>>

NextLocations ==
    \/ GetTreesByFarm
    \/ GetTreeById
    \/ GetFarmById

SpecLocations == InitLocations /\ [][NextLocations]_vars

(***************************************************************************)
(* Properties of the readers, stated on the stored rows.                   *)
(***************************************************************************)
\* The pairs of keys (or the one text) a stored location carries.
PairsOf(point) == IF "also" \in DOMAIN point THEN {point, point.also} ELSE {point}

\* A value of one of the six shapes, all its components numbers; and a
\* value that has no recognized shape or no pair of numbers.
Recognized(point) == point.shape # "bad" /\ \A pair \in PairsOf(point) : numeric(pair)

Unreadable(point) == point.shape = "bad" \/ \A pair \in PairsOf(point) : ~numeric(pair)

\* The first shape, in the order lat/lng, latitude/longitude, x/y, "(A,B)",
\* "POINT(A B)", "A,B", that the value has, and the {lat, lng} it stands for.
ShapeOrder == <<"latlng", "latitude", "xy", "paren", "wkt", "bare">>

FirstShape(point) ==
    ShapeOrder[CHOOSE i \in 1..Len(ShapeOrder) :
        /\ hasKeys(point, ShapeOrder[i])
        /\ \A j \in 1..(i - 1) : ~hasKeys(point, ShapeOrder[j])]

Normalized(tree) ==
    [id |-> tree.id, lat |-> keysOf(tree.location, FirstShape(tree.location)).y,
     lng |-> keysOf(tree.location, FirstShape(tree.location)).x]

\* The rows a successful call of the last reader was asked for.
ReaderReturned == last.op \in {"getTreesByFarm", "getTreeById", "getFarmById"} /\ ~last.fail

RowsAsked ==
    {t \in Range(trees) : IF last.op = "getTreeById" THEN t.id = last.tree_id
                          ELSE t.farm_id = last.farm_id}

\* C17: getTreesByFarm, getTreeById and getFarmById return every tree whose
\* stored location has one of the six recognized shapes with the {lat, lng}
\* of the first shape, in the fixed order, that the value has.
C17_EveryReaderNormalizesTheSixShapes ==
    ReaderReturned =>
        \A t \in RowsAsked : Recognized(t.location) => Normalized(t) \in Range(last.trees)

\* C18: getTreesByFarm and getFarmById leave out exactly the trees whose
\* stored location has no recognized shape or a NaN component, and return
\* every other tree of the farm; no returned tree has a NaN coordinate or
\* the location (0,0).
C18_UnreadableTreesAreLeftOutAlone ==
    (ReaderReturned /\ last.op # "getTreeById") =>
        /\ \A t \in RowsAsked :
              /\ Unreadable(t.location) => \A r \in Range(last.trees) : r.id # t.id
              /\ Recognized(t.location) => \E r \in Range(last.trees) : r.id = t.id
        /\ \A r \in Range(last.trees) :
              /\ ~isNaN(r.lat) /\ ~isNaN(r.lng)
              /\ ~(r.lat = 0 /\ r.lng = 0)

(***************************************************************************)
(* farmService.ts: createFarm and updateFarm, and calculatePolygonArea of  *)
(* FarmMap.tsx.  Areas are counted in square metres, 1/10000 of a hectare. *)
(***************************************************************************)
SquareMetersPerHectare == 10000

\* area_hectares is DECIMAL(10, 2): the column keeps hundredths of a
\* hectare, that is multiples of 100 square metres.
StoredAreaStep == 100

\* The sum of the loop of calculatePolygonArea over the edges i..Len-1 of
\* the ring.  On the plane of the grid the term
\* (lng2 - lng1) * (2 + sin lat1 + sin lat2) is (x2 - x1) * (y1 + y2): over a
\* closed ring the constant 2 adds up to nothing.
RECURSIVE ringSum(_, _)
ringSum(coordinates, i) ==
    IF i >= Len(coordinates) THEN 0
    ELSE (coordinates[i + 1].x - coordinates[i].x) * (coordinates[i].y + coordinates[i + 1].y)
             + ringSum(coordinates, i + 1)

Abs(n) == IF n < 0 THEN 0 - n ELSE n

\* calculatePolygonArea: the area of the outer ring, in square metres.
calculatePolygonArea(polygon) ==
    IF Len(polygon) < 3 THEN 0
    ELSE (Abs(ringSum(polygon, 1)) * GridMeters * GridMeters) \div 2

\* calculateTotalArea: the sum over the polygons from the i-th on.
RECURSIVE calculateTotalArea(_, _)
calculateTotalArea(polygons, i) ==
    IF i > Len(polygons) THEN 0
    ELSE calculatePolygonArea(polygons[i]) + calculateTotalArea(polygons, i + 1)

\* What the column area_hectares keeps of a value written to it: the value
\* rounded to two decimals of a hectare.
storedArea(area) == ((area + StoredAreaStep \div 2) \div StoredAreaStep) * StoredAreaStep

NoFarm == [exists |-> FALSE, name |-> NULL, boundaries |-> <<>>, area_hectares |-> NullInt]

\* createFarm: the row inserted for farmData, or no row when the insert
\* fails.
createFarm(farmData, totalArea, insertFails) ==
    IF insertFails THEN NoFarm
    ELSE [exists |-> TRUE, name |-> farmData.name, boundaries |-> farmData.boundaries,
          area_hectares |-> storedArea(totalArea)]

\* updateFarm: the row after the update; updates.hasBoundaries tells
\* whether updates.boundaries was given.
updateFarm(row, updates, updateFails) ==
    IF updateFails \/ ~row.exists THEN row
    ELSE [exists |-> TRUE,
          name |-> IF TruthyStr(updates.name) THEN updates.name ELSE row.name,
          boundaries |-> IF updates.hasBoundaries THEN updates.boundaries ELSE row.boundaries,
          area_hectares |-> IF updates.hasBoundaries
                            THEN storedArea(calculateTotalArea(updates.boundaries, 1))
                            ELSE row.area_hectares]

(***************************************************************************)
(* Specification SpecFarms: farms created and updated.                     *)
(***************************************************************************)
\* A parcel of one cell (225 square metres) and one of sixteen cells
\* (3600 square metres, 0.36 ha).
FarmParcels == {Rect(0, 0, 1, 1), Rect(0, 0, 4, 4)}

FarmBoundaryLists == UNION {[1..n -> FarmParcels] : n \in 0..MaxParcels}

FarmNames == {"Finca Uno", "Finca Dos"}

InitFarms ==
    /\ trees = <<>>
    /\ steps = <<>>
    /\ photos = <<>>
    /\ farms = [f \in FarmIds |-> NoFarm]
    /\ last = Idle
    /\ ui = NoUi

CreateFarm ==
    /\ \E farmId \in FarmIds, name \in FarmNames, boundaries \in FarmBoundaryLists,
          insertFails \in BOOLEAN :
          /\ ~farms[farmId].exists
          /\ farms' = [farms EXCEPT ![farmId] =
                          createFarm([name |-> name, boundaries |-> boundaries],
                                     calculateTotalArea(boundaries, 1), insertFails)]
          /\ last' = [op |-> "createFarm", farm_id |-> farmId, success |-> ~insertFails,
                      hasBoundaries |-> TRUE, boundaries |-> boundaries, before |-> farms[farmId]]
    /\ UNCHANGED <<ui, trees, steps, photos>>

UpdateFarm ==
    /\ \E farmId \in FarmIds, name \in FarmNames \cup {NULL}, hasBoundaries \in BOOLEAN,
          boundaries \in FarmBoundaryLists, updateFails \in BOOLEAN :
          /\ hasBoundaries \/ boundaries = <<>>
          /\ farms' = [farms EXCEPT ![farmId] =
                          updateFarm(farms[farmId],
                                     [name |-> name, hasBoundaries |-> hasBoundaries,
                                      boundaries |-> boundaries], updateFails)]
          /\ last' = [op |-> "updateFarm", farm_id |-> farmId,
                      success |-> ~updateFails /\ farms[farmId].exists,
                      hasBoundaries |-> hasBoundaries, boundaries |-> boundaries,
                      before |-> farms[farmId]]
    /\ UNCHANGED <<ui, trees, steps, photos>>

NextFarms ==
    \/ CreateFarm
    \/ UpdateFarm

SpecFarms == InitFarms /\ [][NextFarms]_vars

\* C19: the stored area_hectares of every farm is the sum of
\* calculatePolygonArea over its stored boundaries; a successful call that
\* submits boundaries stores exactly those, and an updateFarm without
\* boundaries changes neither the boundaries nor the area.
C19_StoredAreaIsTheSumOverStoredBoundaries ==
    /\ \A f \in FarmIds :
          farms[f].exists => farms[f].area_hectares = calculateTotalArea(farms[f].boundaries, 1)
    /\ (last.op \in {"createFarm", "updateFarm"} /\ last.success /\ last.hasBoundaries) =>
          farms[last.farm_id].boundaries = last.boundaries
    /\ (last.op = "updateFarm" /\ last.success /\ ~last.hasBoundaries) =>
          /\ farms[last.farm_id].boundaries = last.before.boundaries
          /\ farms[last.farm_id].area_hectares = last.before.area_hectares

(***************************************************************************)
(* ProcessWorkflow.tsx and BatchSelector: the page of farm A.              *)
(* ui holds the state of the two components:                               *)
(*   batches          the batch ids of the state batches, in list order    *)
(*   selectedBatchId  the state selectedBatchId                            *)
(*   batchReadiness   the state batchReadiness of BatchSelector            *)
(*   checks           the calls of checkReadiness that have not set the    *)
(*                    state yet: started, or returned from their reads     *)
(***************************************************************************)
\* What BatchSelector shows of a batch that has no entry in batchReadiness.
Unchecked == [ready |-> FALSE, reason |-> "Checking...", names |-> <<>>]

\* The effect of BatchSelector on [selectedBatchId, farm.id]: a call of
\* checkReadiness for the batch selected.
checkReadiness(batchId) == [batch_id |-> batchId, phase |-> "started", readiness |-> Unchecked]

batchIdsOf(batchList) == [i \in 1..Len(batchList) |-> batchList[i].batch_id]

\* The page after loadBatchesForFarm: the batches read, the first of them
\* selected, or the id createNewBatch returned when there is none.
loadBatchesForFarm(stepRows, farmId, newBatchId) ==
    LET allBatches == batchIdsOf(getBatchesByFarm(stepRows, farmId, FALSE))
        batchIdToUse == IF Len(allBatches) > 0 THEN allBatches[1] ELSE newBatchId
    IN  [open |-> TRUE, batches |-> allBatches, selectedBatchId |-> batchIdToUse,
         batchReadiness |-> [b \in BatchIds |-> Unchecked],
         checks |-> {checkReadiness(batchIdToUse)}]

\* The selection of a batch, with the effect of BatchSelector that follows
\* the change of selectedBatchId.
selectBatch(page, batchId) ==
    IF batchId = page.selectedBatchId THEN page
    ELSE [page EXCEPT !.selectedBatchId = batchId,
                      !.checks = page.checks \cup {checkReadiness(batchId)}]

\* loadProcessStatus as far as it touches what BatchSelector is given: a
\* selected batch that is not among the batches, when there are batches,
\* is replaced by the first of them.
loadProcessStatus(page) ==
    IF /\ page.selectedBatchId \notin Range(page.batches)
       /\ Len(page.batches) > 0
    THEN selectBatch(page, page.batches[1])
    ELSE page

\* handleSubmit of ProcessStepForm followed by handleStepComplete: the
\* reload happens when createProcessStep did not throw.
handleStepComplete(page, created) ==
    IF created.thrown THEN page
    ELSE loadProcessStatus(page)

\* isReady of BatchSelector, which enables the Mint button.
isReady(page) == page.batchReadiness[page.selectedBatchId].ready

(***************************************************************************)
(* Specification SpecWorkflow: the page of farm A open, steps added        *)
(* through the step form, batches switched, readiness checks running.      *)
(***************************************************************************)
StoredPhoto(treeId, takenAt) == [tree_id |-> treeId, taken_at |-> takenAt]

\* What earlier sessions left: nothing, a monthly update in batch1, or a
\* drying step in batch2 and then a monthly update in batch1.
WorkflowTables ==
    { [steps |-> <<>>, photos |-> <<>>],
      [steps |-> <<StepRow(FarmA, "batch1", Tree1.id, "monthly_update", 1, 1, 1, 1)>>,
       photos |-> <<StoredPhoto(Tree1.id, 1)>>],
      [steps |-> <<StepRow(FarmA, "batch2", Tree1.id, "drying", NullInt, 1, 1, 1),
                   StepRow(FarmA, "batch1", Tree1.id, "monthly_update", 1, 2, 2, 2)>>,
       photos |-> <<StoredPhoto(Tree1.id, 1), StoredPhoto(Tree1.id, 2)>>] }

InitWorkflow ==
    /\ trees = <<Tree1, Tree3>>
    /\ farms = StandardFarms
    /\ \E table \in WorkflowTables :
          /\ steps = table.steps
          /\ photos = table.photos
          /\ ui = loadBatchesForFarm(table.steps, FarmA, "batch1")
    /\ last = Idle

\* What the step form submits: a monthly update names a tree.
FormInputs(treeRows) == {stepData \in StepInputs(treeRows) :
                            stepData.step_type = "monthly_update" => stepData.tree_id # NULL}

\* The user picks a batch in the list of BatchSelector.
SelectBatch ==
    /\ Cardinality(ui.checks) < MaxChecks
    /\ \E batchId \in Range(ui.batches) :
          /\ batchId # ui.selectedBatchId
          /\ ui' = selectBatch(ui, batchId)
    /\ last' = Idle
    /\ UNCHANGED <<trees, steps, photos, farms>>

\* The user submits the step form for the batch selected.
CompleteStep ==
    /\ Len(steps) < MaxWorkflowSteps
    /\ Len(photos) < MaxWorkflowSteps
    /\ \E stepData \in FormInputs(trees) :
          LET created == createProcessStep(trees, farms, steps, photos, FarmA, stepData,
                                           ui.selectedBatchId, ui.selectedBatchId, NoFailure)
          IN  /\ steps' = created.steps
              /\ photos' = created.photos
              /\ ui' = handleStepComplete(ui, created)
              /\ last' = [op |-> "createProcessStep", batch_id |-> ui.selectedBatchId,
                          inserted |-> created.inserted]
    /\ UNCHANGED <<trees, farms>>

\* The reads of a call of checkReadiness are answered.
ReadinessRead ==
    /\ \E check \in ui.checks :
          /\ check.phase = "started"
          /\ ui' = [ui EXCEPT !.checks = (@ \ {check}) \cup
                       {[check EXCEPT !.phase = "read",
                                      !.readiness = isBatchReadyForHypercert(steps, trees, FarmA,
                                                         check.batch_id, FALSE, FALSE)]}]
    /\ UNCHANGED <<trees, steps, photos, farms, last>>

\* A call of checkReadiness sets batchReadiness.
ReadinessSet ==
    /\ \E check \in ui.checks :
          /\ check.phase = "read"
          /\ ui' = [ui EXCEPT !.checks = @ \ {check},
                              !.batchReadiness[check.batch_id] = check.readiness]
    /\ UNCHANGED <<trees, steps, photos, farms, last>>

NextWorkflow ==
    \/ SelectBatch
    \/ CompleteStep
    \/ ReadinessRead
    \/ ReadinessSet

\* The user may stop at any time; a pending call of checkReadiness runs on.
SpecWorkflow ==
    /\ InitWorkflow
    /\ [][NextWorkflow]_vars
    /\ WF_vars(ReadinessRead)
    /\ WF_vars(ReadinessSet)

StepAddedToSelectedBatch ==
    /\ last.op = "createProcessStep"
    /\ last.inserted
    /\ last.batch_id = ui.selectedBatchId

ReadinessShownIsCurrent ==
    isReady(ui) = isBatchReadyForHypercert(steps, trees, FarmA, ui.selectedBatchId, FALSE, FALSE).ready

\* C20: after a process step is added to the selected batch, the readiness
\* BatchSelector shows for that batch, which enables the Mint button,
\* eventually equals isBatchReadyForHypercert on the current step records,
\* whether or not the user switches batch.
C20_ReadinessShownFollowsAddedSteps == StepAddedToSelectedBatch ~> ReadinessShownIsCurrent

(***************************************************************************)
(* farmProcessService.ts: getFarmProcessStatus.                            *)
(***************************************************************************)
AlwaysAvailable == [canStartDrying |-> TRUE, canStartFinalBag |-> TRUE, canStartMonthly |-> TRUE]

ProcessStatus(currentStep, completedSteps, availableActions, monthlySteps, dryingSteps, finalBagSteps, treeMonthlyStatus) ==
    [currentStep |-> currentStep, completedSteps |-> completedSteps,
     availableActions |-> availableActions, monthlySteps |-> monthlySteps,
     dryingSteps |-> dryingSteps, finalBagSteps |-> finalBagSteps,
     treeMonthlyStatus |-> treeMonthlyStatus]

\* The default state of the catch block.
DefaultStatus == ProcessStatus("monthly_update", <<>>, AlwaysAvailable, <<>>, <<>>, <<>>, <<>>)

\* The step the process is at, from the three facts the code tests in turn.
currentStepOf(processCompleted, finalBagCount, dryingCount) ==
    IF processCompleted THEN "completed"
    ELSE IF finalBagCount > 0 THEN "final_bag"
    ELSE IF dryingCount > 0 THEN "final_bag"
    ELSE "monthly_update"

\* The same result with the actions offered according to the current step.
statusOfSteps_ByCurrentStep(stepList, treeMonthlyStatus) ==
    LET isMonthly(s) == s.step_type = "monthly_update" /\ s.completed_at # NullInt /\ s.tree_id # NULL
        isDrying(s) == s.step_type = "drying" /\ s.completed_at # NullInt
        isFinalBag(s) == s.step_type = "final_bag" /\ s.completed_at # NullInt
        isDone(s) == s.completed_at # NullInt
        processCompleted == \E i \in 1..Len(stepList) :
                               stepList[i].step_type = "completed" /\ stepList[i].completed_at # NullInt
        currentStep == currentStepOf(processCompleted, Len(SelectSeq(stepList, isFinalBag)),
                                     Len(SelectSeq(stepList, isDrying)))
    IN  ProcessStatus(currentStep,
                      SelectSeq(stepList, isDone),
                      [canStartDrying |-> currentStep # "completed",
                       canStartFinalBag |-> currentStep = "final_bag",
                       canStartMonthly |-> currentStep = "monthly_update"],
                      SelectSeq(stepList, isMonthly), SelectSeq(stepList, isDrying),
                      SelectSeq(stepList, isFinalBag), treeMonthlyStatus)

\* getFarmProcessStatus from the two reads on.
statusOfSteps(stepList, treeMonthlyStatus) ==
    LET isMonthly(s) == s.step_type = "monthly_update" /\ s.completed_at # NullInt /\ s.tree_id # NULL
        isDrying(s) == s.step_type = "drying" /\ s.completed_at # NullInt
        isFinalBag(s) == s.step_type = "final_bag" /\ s.completed_at # NullInt
        isDone(s) == s.completed_at # NullInt
        processCompleted == \E i \in 1..Len(stepList) :
                               stepList[i].step_type = "completed" /\ stepList[i].completed_at # NullInt
    IN  ProcessStatus(currentStepOf(processCompleted, Len(SelectSeq(stepList, isFinalBag)),
                                    Len(SelectSeq(stepList, isDrying))),
                      SelectSeq(stepList, isDone), AlwaysAvailable,
                      SelectSeq(stepList, isMonthly), SelectSeq(stepList, isDrying),
                      SelectSeq(stepList, isFinalBag), treeMonthlyStatus)

\* getFarmProcessStatus(farmId, batchId); batchId = NULL for the call
\* without a batch.  env says which read fails and whether something in
\* the try block throws.
getFarmProcessStatus(stepRows, treeRows, farmId, batchId, env) ==
    IF env.throws THEN DefaultStatus
    ELSE statusOfSteps(getProcessStepsByFarm(stepRows, farmId, batchId, env.stepsFail),
                       getTreeMonthlyStatus(stepRows, treeRows, farmId, batchId,
                                            env.stepsFail, env.treesFail))

(***************************************************************************)
(* Specification SpecStatus: getFarmProcessStatus over step tables.        *)
(***************************************************************************)
StatusStepTables == {t \in BatchStepTables : Len(t) <= MaxStatusRows}

StatusWorks == [stepsFail |-> FALSE, treesFail |-> FALSE, throws |-> FALSE]

StatusEnvs == {StatusWorks} \cup {[StatusWorks EXCEPT ![k] = TRUE] : k \in DOMAIN StatusWorks}

InitStatus ==
    /\ trees = <<Tree1, Tree2, Tree3>>
    /\ farms = StandardFarms
    /\ steps \in StatusStepTables
    /\ photos = <<>>
    /\ last = Idle
    /\ ui = NoUi

GetFarmProcessStatus ==
    /\ \E batchId \in BatchIds \cup {NULL}, env \in StatusEnvs :
          last' = [op |-> "getFarmProcessStatus", batch_id |-> batchId, env |-> env,
                   result |-> getFarmProcessStatus(steps, trees, FarmA, batchId, env)]
    /\ UNCHANGED <<ui, trees, steps, photos, farms>>

NextStatus == GetFarmProcessStatus

SpecStatus == InitStatus /\ [][NextStatus]_vars

StatusReturned == last.op = "getFarmProcessStatus"

\* C21: every result of getFarmProcessStatus, whatever its currentStep and
\* whatever steps exist, and the result of its error path too, reports
\* canStartMonthly, canStartDrying and canStartFinalBag all true.
C21_EveryActionAlwaysStartable ==
    StatusReturned =>
        /\ last.result.availableActions.canStartMonthly
        /\ last.result.availableActions.canStartDrying
        /\ last.result.availableActions.canStartFinalBag

\* Reached: a batch marked completed, all three actions offered.
C21_Witness ==
    /\ StatusReturned
    /\ last.env = StatusWorks
    /\ last.result.currentStep = "completed"
    /\ last.result.availableActions = AlwaysAvailable

(***************************************************************************)
(* More properties of isBatchReadyForHypercert under SpecReady.            *)
(***************************************************************************)
\* The trees the call read that have no monthly_update step with a photo
\* among the rows it read, and the name the reason gives a tree.
TreesLackingPhoto ==
    {t \in TreesRead :
        ~\E s \in RowsRead : s.step_type = "monthly_update" /\ s.tree_id = t.id /\ HasPhoto(s)}

NameInReason(t) == IF t.tree_number # NULL /\ t.tree_number # "" THEN t.tree_number ELSE Slice8(t.id)

C23_ReadinessIsAlwaysAStructuredResult ==
    ReadinessReturned =>
        /\ last.result.ready \in BOOLEAN
        /\ last.result.ready => last.result.reason = NULL
        /\ ~last.result.ready => TruthyStr(last.result.reason)
        /\ last.fail # "none" => ~last.result.ready

\* Reached: the read of the steps fails for a batch that has steps, and the
\* result is not ready with a reason.
C23_Witness ==
    /\ ReadinessReturned
    /\ last.fail = "steps"
    /\ RowsOfBatch(last.batch_id) # {}
    /\ ~last.result.ready
    /\ last.result.reason = ReasonTrees

\* C24: validatePhotoLocationInFarm never throws: a tree that is not
\* found, a farm that is not found, a point outside every buffered parcel
\* and an exception of the geometry library each come back as a result
\* with valid = false and an error text.
C24_ValidationNeverThrows ==
    ValidationReturned =>
        /\ ~last.thrown
        /\ ~last.result.valid => TruthyStr(last.result.error)
        /\ (last.fail # "none" \/ last.tree_id = UnknownTree) => ~last.result.valid
        /\ (last.fail = "none" /\ ~InSomeBufferedParcel(last.location)) => ~last.result.valid

\* Reached: the geometry library throws for a tree and a farm that were
\* found, and the caller receives the result of the catch block.
C24_Witness ==
    /\ ValidationReturned
    /\ last.fail = "turf"
    /\ Len(farms[FarmA].boundaries) > 0
    /\ ~last.thrown
    /\ last.result.error = ErrValidating

(***************************************************************************)
(* treeService.ts: locationToPoint and pointToLocation on the values       *)
(* themselves.  A text is the sequence of its characters; a value is       *)
(* [kind |-> "string", text |-> ...] or [kind |-> "object", keys |-> r]     *)
(* with r the record of its keys.  Numbers are integers, written in        *)
(* decimal as String(n) writes them.                                       *)
(***************************************************************************)
Digits == <<"0", "1", "2", "3", "4", "5", "6", "7", "8", "9">>

IsDigit(c) == \E d \in 1..Len(Digits) : Digits[d] = c

DigitValue(c) == (CHOOSE d \in 1..Len(Digits) : Digits[d] = c) - 1

\* String(n) of a number that is not negative, and of any number.
RECURSIVE natText(_)
natText(n) == IF n < 10 THEN <<Digits[n + 1]>> ELSE natText(n \div 10) \o <<Digits[(n % 10) + 1]>>

numberText(n) == IF n < 0 THEN <<"-">> \o natText(0 - n) ELSE natText(n)

\* The text without its leading blanks, and String.prototype.trim.
RECURSIVE trimStart(_)
trimStart(text) ==
    IF Len(text) > 0 /\ text[1] = " " THEN trimStart(Tail(text)) ELSE text

trim(text) == Reverse(trimStart(Reverse(trimStart(text))))

\* The number written by the digits of text from position i on, after acc.
RECURSIVE digitsValue(_, _, _)
digitsValue(text, i, acc) ==
    IF i > Len(text) \/ ~IsDigit(text[i]) THEN acc
    ELSE digitsValue(text, i + 1, acc * 10 + DigitValue(text[i]))

\* parseFloat: leading blanks skipped, a sign, then the longest run of
\* digits; whatever follows is ignored; NaN when there is no digit.
parseFloat(text) ==
    LET t == trimStart(text)
        signed == Len(t) > 0 /\ t[1] \in {"-", "+"}
        first == IF signed THEN 2 ELSE 1
    IN  IF first > Len(t) \/ ~IsDigit(t[first]) THEN NaN
        ELSE IF signed /\ t[1] = "-" THEN 0 - digitsValue(t, first, 0)
        ELSE digitsValue(t, first, 0)

\* The first position from i on where text has character c; 0 for none.
RECURSIVE indexOf(_, _, _)
indexOf(text, c, i) ==
    IF i > Len(text) THEN 0
    ELSE IF text[i] = c THEN i
    ELSE indexOf(text, c, i + 1)

\* locationToPoint with the latitude written first.
locationToPoint_LatFirst(location) ==
    <<"(">> \o numberText(location.lat) \o <<",">> \o numberText(location.lng) \o <<")">>

\* locationToPoint: `(${location.lng},${location.lat})`.
locationToPoint(location) ==
    <<"(">> \o numberText(location.lng) \o <<",">> \o numberText(location.lat) \o <<")">>

NoMatch == [matched |-> FALSE, first |-> <<>>, second |-> <<>>]

Match(first, second) == [matched |-> TRUE, first |-> first, second |-> second]

\* /\(([^,]+),([^)]+)\)/ tried at the "(" of position open: the first group
\* runs to the first comma, the second from there to the first ")".
parenMatchAt(text, open, comma, close) ==
    IF comma > open + 1 /\ close > comma + 1
    THEN Match(SubSeq(text, open + 1, comma - 1), SubSeq(text, comma + 1, close - 1))
    ELSE NoMatch

\* The leftmost match of the pattern from position i on.
RECURSIVE parenMatch(_, _)
parenMatch(text, i) ==
    IF indexOf(text, "(", i) = 0 THEN NoMatch
    ELSE IF indexOf(text, ",", indexOf(text, "(", i) + 1) = 0 THEN NoMatch
    ELSE IF parenMatchAt(text, indexOf(text, "(", i),
                         indexOf(text, ",", indexOf(text, "(", i) + 1),
                         indexOf(text, ")", indexOf(text, ",", indexOf(text, "(", i) + 1) + 1)).matched
    THEN parenMatchAt(text, indexOf(text, "(", i),
                      indexOf(text, ",", indexOf(text, "(", i) + 1),
                      indexOf(text, ")", indexOf(text, ",", indexOf(text, "(", i) + 1) + 1))
    ELSE parenMatch(text, indexOf(text, "(", i) + 1)

WktPrefix == <<"P", "O", "I", "N", "T", "(">>

\* The last position of a ")" in text[from..to]; 0 for none.
RECURSIVE lastClose(_, _, _)
lastClose(text, from, to) ==
    IF to < from THEN 0
    ELSE IF text[to] = ")" THEN to
    ELSE lastClose(text, from, to - 1)

\* /POINT\(([^ ]+) ([^ ]+)\)/ tried with "POINT(" at position start: the
\* first group runs to the first blank, the second is the run without
\* blanks after it up to its last ")".
wktMatchAt(text, start, blank, runEnd) ==
    IF blank > start + Len(WktPrefix) /\ lastClose(text, blank + 2, runEnd) # 0
    THEN Match(SubSeq(text, start + Len(WktPrefix), blank - 1),
               SubSeq(text, blank + 1, lastClose(text, blank + 2, runEnd) - 1))
    ELSE NoMatch

\* The end of the run without blanks that starts at position i.
runEndFrom(text, i) == IF indexOf(text, " ", i) = 0 THEN Len(text) ELSE indexOf(text, " ", i) - 1

RECURSIVE wktMatch(_, _)
wktMatch(text, i) ==
    IF i + Len(WktPrefix) - 1 > Len(text) THEN NoMatch
    ELSE IF SubSeq(text, i, i + Len(WktPrefix) - 1) # WktPrefix THEN wktMatch(text, i + 1)
    ELSE IF indexOf(text, " ", i + Len(WktPrefix)) = 0 THEN wktMatch(text, i + 1)
    ELSE IF wktMatchAt(text, i, indexOf(text, " ", i + Len(WktPrefix)),
                       runEndFrom(text, indexOf(text, " ", i + Len(WktPrefix)) + 1)).matched
    THEN wktMatchAt(text, i, indexOf(text, " ", i + Len(WktPrefix)),
                    runEndFrom(text, indexOf(text, " ", i + Len(WktPrefix)) + 1))
    ELSE wktMatch(text, i + 1)

\* point.split(',') when it has two parts.
splitInTwo(text) ==
    IF indexOf(text, ",", 1) # 0 /\ indexOf(text, ",", indexOf(text, ",", 1) + 1) = 0
    THEN Match(SubSeq(text, 1, indexOf(text, ",", 1) - 1),
               SubSeq(text, indexOf(text, ",", 1) + 1, Len(text)))
    ELSE NoMatch

\* {lat, lng} from the two numbers read, when both are numbers.
bothNumbers(lng, lat) == ~isNaN(lat) /\ ~isNaN(lng)

\* The string branch of pointToLocation, from the three matches on.
textToLocation(match1, match2, parts) ==
    IF match1.matched /\ bothNumbers(parseFloat(trim(match1.first)), parseFloat(trim(match1.second)))
    THEN Parsed(parseFloat(trim(match1.second)), parseFloat(trim(match1.first)))
    ELSE IF match2.matched /\ bothNumbers(parseFloat(match2.first), parseFloat(match2.second))
    THEN Parsed(parseFloat(match2.second), parseFloat(match2.first))
    ELSE IF parts.matched /\ bothNumbers(parseFloat(trim(parts.first)), parseFloat(trim(parts.second)))
    THEN Parsed(parseFloat(trim(parts.second)), parseFloat(trim(parts.first)))
    ELSE Invalid

\* The object branch of pointToLocation; keys hold numbers.
keysToLocation(keys) ==
    IF {"lat", "lng"} \subseteq DOMAIN keys /\ bothNumbers(keys.lng, keys.lat)
    THEN Parsed(keys.lat, keys.lng)
    ELSE IF {"latitude", "longitude"} \subseteq DOMAIN keys /\ bothNumbers(keys.longitude, keys.latitude)
    THEN Parsed(keys.latitude, keys.longitude)
    ELSE IF {"x", "y"} \subseteq DOMAIN keys /\ bothNumbers(keys.x, keys.y)
    THEN Parsed(keys.y, keys.x)
    ELSE Invalid

\* pointToLocation of a value; ok = FALSE stands for the throw.
pointToLocationValue(point) ==
    IF point.kind = "object" THEN keysToLocation(point.keys)
    ELSE textToLocation(parenMatch(point.text, 1), wktMatch(point.text, 1), splitInTwo(point.text))

(***************************************************************************)
(* Specification SpecRoundTrip: a point written in one representation and  *)
(* read back.                                                              *)
(***************************************************************************)
Coordinates == {7 * c : c \in (0 - MaxCoordinate)..MaxCoordinate}

Representations == {"paren", "latlng", "latitude", "xy", "wkt", "bare"}

StringValue(text) == [kind |-> "string", text |-> text]

ObjectValue(keys) == [kind |-> "object", keys |-> keys]

\* The point in one of the six representations; "paren" is what
\* locationToPoint writes.
Represent(location, representation) ==
    CASE representation = "paren" -> StringValue(locationToPoint(location))
      [] representation = "latlng" -> ObjectValue([lat |-> location.lat, lng |-> location.lng])
      [] representation = "latitude" ->
            ObjectValue([latitude |-> location.lat, longitude |-> location.lng])
      [] representation = "xy" -> ObjectValue([x |-> location.lng, y |-> location.lat])
      [] representation = "wkt" ->
            StringValue(WktPrefix \o numberText(location.lng) \o <<" ">>
                            \o numberText(location.lat) \o <<")">>)
      [] OTHER -> StringValue(numberText(location.lng) \o <<",">> \o numberText(location.lat))

InitRoundTrip ==
    /\ trees = <<>>
    /\ steps = <<>>
    /\ photos = <<>>
    /\ farms = StandardFarms
    /\ last = Idle
    /\ ui = NoUi

RoundTrip ==
    /\ \E lat \in Coordinates, lng \in Coordinates, representation \in Representations :
          last' = [op |-> "roundTrip", location |-> [lat |-> lat, lng |-> lng],
                   representation |-> representation,
                   value |-> Represent([lat |-> lat, lng |-> lng], representation),
                   result |-> pointToLocationValue(
                                  Represent([lat |-> lat, lng |-> lng], representation))]
    /\ UNCHANGED <<ui, trees, steps, photos, farms>>

NextRoundTrip == RoundTrip

SpecRoundTrip == InitRoundTrip /\ [][NextRoundTrip]_vars

\* C25: a point written by locationToPoint as "(lng,lat)" and read back by
\* pointToLocation is the original point, latitude and longitude not
\* swapped; the same for the point given as a lat/lng object, a
\* latitude/longitude object, an x/y object, "POINT(lng lat)" and
\* "lng,lat".
C25_LocationRoundTrip ==
    last.op = "roundTrip" =>
        /\ last.result.ok
        /\ last.result.lat = last.location.lat
        /\ last.result.lng = last.location.lng

\* Reached: a point with a negative longitude of two digits, different
\* from its latitude, written by locationToPoint and read back.
C25_Witness ==
    /\ last.op = "roundTrip"
    /\ last.representation = "paren"
    /\ last.value.text = <<"(", "-", "1", "4", ",", "7", ")">>
    /\ last.result = Parsed(7, -14)

(***************************************************************************)
(* Two calls of getBatchesByFarm, under SpecBatches.                       *)
(***************************************************************************)
\* The steps of a list of batches, batch after batch, as one list.
RECURSIVE stepsOfBatches(_)
stepsOfBatches(batches) ==
    IF batches = <<>> THEN <<>>
    ELSE Head(batches).steps \o stepsOfBatches(Tail(batches))

\* Steps i and j of the list have the same sort key.
EqualUnderSortKey(stepList) ==
    \E i, j \in 1..Len(stepList) : i < j /\ compareSteps(stepList[i], stepList[j]) = 0

FreshId == "fresh-uuid"

\* Steps of farm A stored before the call, each with its photo.
PriorSteps ==
    {[i \in 1..n |-> StepRow(FarmA, "batch1", Tree1.id, "monthly_update", i, i, i, i)] :
        n \in 0..MaxPriorSteps}

InitCreate ==
    /\ trees \in TreeTables
    /\ farms = StandardFarms
    /\ steps \in PriorSteps
    /\ photos = [i \in 1..Len(steps) |-> [tree_id |-> Tree1.id, taken_at |-> i]]
    /\ last = Idle
    /\ ui = NoUi

\* What the caller passes: the step forms, with or without a batch of
\* their own.
CreateInputs(treeRows) ==
    {[s EXCEPT !.batch_id = b] : s \in StepInputs(treeRows), b \in {NULL, "batch2"}}

\* A call of createProcessStep(FarmA, stepData, batchId?).
CreateStep ==
    /\ last = Idle
    /\ \E stepData \in CreateInputs(trees), batchId \in {NULL, "batch1"}, env \in Failures :
          LET r == createProcessStep(trees, farms, steps, photos,
                                     FarmA, stepData, batchId, FreshId, env)
          IN  /\ steps' = r.steps
              /\ photos' = r.photos
              /\ last' = [op |-> "createProcessStep", stepData |-> stepData,
                          batchId |-> batchId, env |-> env, thrown |-> r.thrown,
                          stepsBefore |-> steps, photosBefore |-> photos]
    /\ UNCHANGED <<ui, trees, farms>>

NextCreate == CreateStep

SpecCreate == InitCreate /\ [][NextCreate]_vars

CreateReturned == last.op = "createProcessStep"

\* The trees the call may tie its photo to: the one given, or for a step
\* without one, unless it is a monthly update, the trees of the farm read.
TreesOfCall ==
    IF last.stepData.tree_id # NULL THEN {last.stepData.tree_id}
    ELSE IF last.stepData.step_type = "monthly_update" \/ last.env.treesFail THEN {}
    ELSE {t.id : t \in {r \in Range(trees) : r.farm_id = FarmA}}

\* The geofence check of the call rejects the location.
GeofenceRejects ==
    /\ TreesOfCall # {}
    /\ \A t \in TreesOfCall :
          ~validatePhotoLocationInFarm(trees, farms, t, last.stepData.location,
                                       last.env.treeFails, last.env.farmFails).valid

UploadFails == last.env.ipfsFails \/ last.env.insertFails

RowInserted == CreateReturned /\ Len(steps) = Len(last.stepsBefore) + 1

\* C27: createProcessStep inserts a step only after uploadTreePhoto has
\* returned a stored photo: when no tree can be resolved, the geofence
\* check rejects the location or the upload fails, the call throws and
\* stores no step; a row it stores has a tree, the photo just stored and a
\* completion time, and belongs to the batch passed, else to the batch of
\* stepData, else to a fresh one.
C27_StepStoredOnlyWithStoredPhoto ==
    CreateReturned =>
        /\ (TreesOfCall = {} \/ GeofenceRejects \/ UploadFails)
              => (last.thrown /\ steps = last.stepsBefore)
        /\ Len(steps) \in {Len(last.stepsBefore), Len(last.stepsBefore) + 1}
        /\ SubSeq(steps, 1, Len(last.stepsBefore)) = last.stepsBefore
        /\ RowInserted =>
              /\ ~last.thrown
              /\ photos = Append(last.photosBefore, photos[Len(photos)])
              /\ steps[Len(steps)].photo_id = Len(photos)
              /\ steps[Len(steps)].photo_id # NoPhoto
              /\ steps[Len(steps)].tree_id \in TreesOfCall
              /\ steps[Len(steps)].tree_id # NULL
              /\ photos[Len(photos)].tree_id = steps[Len(steps)].tree_id
              /\ steps[Len(steps)].completed_at # NullInt
              /\ steps[Len(steps)].batch_id =
                    (IF last.batchId # NULL THEN last.batchId
                     ELSE IF last.stepData.batch_id # NULL THEN last.stepData.batch_id
                     ELSE FreshId)

\* Reached: a drying step without a tree, stored for the first tree of the
\* farm in the batch passed although stepData names another batch.
C27_Witness ==
    /\ RowInserted
    /\ last.stepData.step_type = "drying"
    /\ last.batchId = "batch1"
    /\ last.stepData.batch_id = "batch2"
    /\ steps[Len(steps)].batch_id = "batch1"
    /\ steps[Len(steps)].tree_id \in {Tree1.id, Tree2.id}

\* Reached: a call that throws on a rejected location and stores nothing.
C27_WitnessRejected ==
    /\ CreateReturned
    /\ GeofenceRejects
    /\ last.thrown
    /\ steps = last.stepsBefore

(***************************************************************************)
(* Specification SpecEvidence: steps are recorded and batches completed    *)
(* on farm A, whose trees stay as they are, beyond the point where a batch *)
(* is ready.                                                               *)
(***************************************************************************)
InitEvidence ==
    /\ trees = <<Tree1, Tree3>>
    /\ farms = StandardFarms
    /\ steps = <<>>
    /\ photos = <<>>
    /\ last = Idle
    /\ ui = NoUi

\* The step forms filled in with a location inside the parcel.
EvidenceInputs == {s \in StepInputs(trees) : s.location = Pt(1, 2) /\ s.tree_id # Tree3.id}

\* A call of createProcessStep(FarmA, stepData, batchId) in which nothing
\* fails; it throws for a monthly update without a tree.
RecordEvidence ==
    /\ Len(steps) < MaxEvidence
    /\ Len(photos) < MaxEvidence
    /\ \E stepData \in EvidenceInputs, batchId \in BatchIds :
          LET r == createProcessStep(trees, farms, steps, photos,
                                     FarmA, stepData, batchId, batchId, NoFailure)
          IN  /\ steps' = r.steps
              /\ photos' = r.photos
              /\ last' = Idle
    /\ UNCHANGED <<ui, trees, farms>>

\* A call of completeFarmProcess(FarmA, batchId).
CompleteBatch ==
    /\ Len(steps) < MaxEvidence
    /\ \E batchId \in BatchIds, insertFails \in BOOLEAN :
          /\ steps' = completeFarmProcess(steps, FarmA, batchId, insertFails)
          /\ last' = Idle
    /\ UNCHANGED <<ui, trees, photos, farms>>

\* A call of isBatchReadyForHypercert(FarmA, batchId) whose reads succeed.
CheckEvidence ==
    /\ \E batchId \in BatchIds :
          last' = [op |-> "isBatchReadyForHypercert", batch_id |-> batchId,
                   fail |-> "none",
                   result |-> isBatchReadyForHypercert(steps, trees, FarmA, batchId,
                                                       FALSE, FALSE)]
    /\ UNCHANGED <<ui, trees, steps, photos, farms>>

NextEvidence ==
    \/ RecordEvidence
    \/ CompleteBatch
    \/ CheckEvidence

SpecEvidence == InitEvidence /\ [][NextEvidence]_vars

\* What isBatchReadyForHypercert(FarmA, batchId) returns on the rows stored
\* when its reads succeed.
ReadyNow(batchId) ==
    isBatchReadyForHypercert(steps, trees, FarmA, batchId, FALSE, FALSE).ready

\* C29: with the trees of the farm unchanged, a batch for which
\* isBatchReadyForHypercert returns ready = true is still reported ready
\* after every further createProcessStep and completeFarmProcess, on this
\* or on another batch.
C29_ReadinessIsMonotone ==
    [][\A batchId \in BatchIds : ReadyNow(batchId) => ReadyNow(batchId)']_vars

\* Reached: batch1 was ready with its first three steps, a row of batch2
\* was stored since, and the check returns ready.
C29_Witness ==
    /\ ReadinessReturned
    /\ last.batch_id = "batch1"
    /\ last.fail = "none"
    /\ last.result.ready
    /\ Len(steps) = MaxEvidence
    /\ isBatchReadyForHypercert(SubSeq(steps, 1, 3), trees, FarmA, "batch1", FALSE, FALSE).ready
    /\ steps[Len(steps)].batch_id = "batch2"

(***************************************************************************)
(* ProcessWorkflow.tsx: the component with its asynchronous calls.         *)
(* ui holds the props and state of the component and the calls in flight:  *)
(*   farm             the prop farm.id                                     *)
(*   batches          the state batches, as [batch_id, farm_id]            *)
(*   selectedBatchId  the state selectedBatchId (NULL for null)            *)
(*   processStatus    the state processStatus; loaded = FALSE for null     *)
(*   loading, creatingBatch   the states of these names                    *)
(*   newBatchId       the id set by the last handleCreateNewBatch, NULL    *)
(*                    once the user has chosen a batch or the farm changed *)
(*   fresh            how many ids crypto.randomUUID() has returned         *)
(*   tasks            the calls suspended at an await, each with the       *)
(*                    values its closure holds                             *)
(***************************************************************************)
NewIds == <<"new1", "new2", "new3", "new4", "new5">>

NoStatus == [loaded |-> FALSE, status |-> DefaultStatus]

LoadedStatus(status) == [loaded |-> TRUE, status |-> status]

\* A call suspended at an await: of getBatchesByFarm (stage "batches") or
\* of getFarmProcessStatus (stage "status") for batch_id.  revert is the
\* batch loadProcessStatus selects afterwards, selected and batches are the
\* state the closure of handleCreateNewBatch holds, creating says that
\* handleCreateNewBatch ends with the call.
Task(kind, farmId, stage, batchId, revert, selected, batchList, creating) ==
    [kind |-> kind, farm_id |-> farmId, stage |-> stage, batch_id |-> batchId,
     revert |-> revert, selected |-> selected, batches |-> batchList, creating |-> creating]

\* What the component keeps of the batches getBatchesByFarm returns.
shownBatches(batchList) ==
    [i \in 1..Len(batchList) |->
        [batch_id |-> batchList[i].batch_id, farm_id |-> batchList[i].farm_id]]

\* loadProcessStatus up to its await, called with the farm, selectedBatchId
\* and batches of the render that created it.
startLoadProcessStatus(page, farmId, selected, batchList, creating) ==
    IF selected = NULL /\ Len(batchList) = 0
    THEN [page EXCEPT !.loading = FALSE,
                      !.creatingBatch = IF creating THEN FALSE ELSE @]
    ELSE LET batchId == IF selected # NULL THEN selected ELSE batchList[1].batch_id
             validBatch == \E i \in 1..Len(batchList) : batchList[i].batch_id = batchId
         IN  IF ~validBatch /\ Len(batchList) > 0
             THEN [page EXCEPT !.loading = TRUE,
                      !.tasks = @ \cup {Task("loadProcessStatus", farmId, "status",
                                             batchList[1].batch_id, batchList[1].batch_id,
                                             NULL, <<>>, creating)}]
             ELSE [page EXCEPT !.loading = TRUE,
                      !.tasks = @ \cup {Task("loadProcessStatus", farmId, "status",
                                             batchId, NULL, NULL, <<>>, creating)}]

\* The effect on [selectedBatchId], run after a render in which the state
\* differs from the one of the render before.
selectedBatchEffect(page, before) ==
    IF /\ page.selectedBatchId # before.selectedBatchId
       /\ page.selectedBatchId # NULL
       /\ Len(page.batches) > 0
    THEN startLoadProcessStatus(page, page.farm, page.selectedBatchId, page.batches, FALSE)
    ELSE page

\* The effect on [farm.id]: the state is reset and loadBatchesForFarm
\* starts; it runs at mount as well.
farmEffect(page, farmId) ==
    [page EXCEPT !.farm = farmId, !.selectedBatchId = NULL, !.batches = <<>>,
                 !.processStatus = NoStatus, !.loading = TRUE, !.newBatchId = NULL,
                 !.tasks = @ \cup {Task("loadBatchesForFarm", farmId, "batches",
                                        NULL, NULL, NULL, <<>>, FALSE)}]

\* loadBatchesForFarm from the return of getBatchesByFarm to the call of
\* getFarmProcessStatus.
batchesLoaded(page, task, allBatches) ==
    LET created == Len(allBatches) = 0
        batchIdToUse == IF created THEN NewIds[page.fresh + 1] ELSE allBatches[1].batch_id
    IN  selectedBatchEffect(
            [page EXCEPT !.batches = allBatches, !.selectedBatchId = batchIdToUse,
                         !.fresh = IF created THEN @ + 1 ELSE @,
                         !.tasks = (@ \ {task}) \cup
                                   {Task("loadBatchesForFarm", task.farm_id, "status",
                                         batchIdToUse, NULL, NULL, <<>>, FALSE)}],
            page)

\* loadBatchesForFarm and loadProcessStatus from the return of
\* getFarmProcessStatus on.
statusLoaded(page, task, status) ==
    selectedBatchEffect(
        [page EXCEPT !.processStatus = LoadedStatus(status),
                     !.selectedBatchId = IF task.revert # NULL THEN task.revert ELSE @,
                     !.loading = FALSE,
                     !.creatingBatch = IF task.creating THEN FALSE ELSE @,
                     !.tasks = @ \ {task}],
        page)

\* handleCreateNewBatch up to its await of getBatchesByFarm.
handleCreateNewBatch(page) ==
    [page EXCEPT !.creatingBatch = TRUE, !.fresh = @ + 1,
                 !.tasks = @ \cup {Task("handleCreateNewBatch", page.farm, "batches",
                                        NewIds[page.fresh + 1], NULL,
                                        page.selectedBatchId, page.batches, TRUE)}]

\* handleCreateNewBatch from the return of getBatchesByFarm on: the state
\* is set and loadProcessStatus is called as the handler holds it.
newBatchLoaded(page, task, allBatches) ==
    selectedBatchEffect(
        startLoadProcessStatus(
            [page EXCEPT !.batches = allBatches, !.selectedBatchId = task.batch_id,
                         !.newBatchId = task.batch_id, !.tasks = @ \ {task}],
            task.farm_id, task.selected, task.batches, TRUE),
        page)

\* onSelectBatch of BatchSelector.
onSelectBatch(page, batchId) ==
    selectedBatchEffect([page EXCEPT !.selectedBatchId = batchId, !.newBatchId = NULL], page)

\* handleStepComplete after a createProcessStep that did not throw.
stepCompleted(page, created) ==
    IF created.thrown THEN page
    ELSE startLoadProcessStatus(page, page.farm, page.selectedBatchId, page.batches, FALSE)

(***************************************************************************)
(* Specification SpecPage: ProcessWorkflow is mounted for farm A; the user *)
(* selects and creates batches, records steps and changes the farm while   *)
(* the calls of the component are answered in any order.                   *)
(***************************************************************************)
\* What earlier sessions left: nothing, a batch of farm A, or a batch of
\* each farm.
PageTables ==
    { [steps |-> <<>>, photos |-> <<>>],
      [steps |-> <<StepRow(FarmA, "batch1", Tree1.id, "monthly_update", 1, 1, 1, 1)>>,
       photos |-> <<StoredPhoto(Tree1.id, 1)>>],
      [steps |-> <<StepRow(FarmA, "batch1", Tree1.id, "monthly_update", 1, 1, 1, 1),
                   StepRow(FarmB, "batch2", Tree3.id, "drying", NullInt, 2, 2, 2)>>,
       photos |-> <<StoredPhoto(Tree1.id, 1), StoredPhoto(Tree3.id, 2)>>] }

Unmounted ==
    [open |-> TRUE, farm |-> FarmA, batches |-> <<>>, selectedBatchId |-> NULL,
     processStatus |-> NoStatus, loading |-> TRUE, creatingBatch |-> FALSE,
     newBatchId |-> NULL, fresh |-> 0, tasks |-> {}]

InitPage ==
    /\ trees = <<Tree1, Tree3>>
    /\ farms = StandardFarms
    /\ \E table \in PageTables :
          /\ steps = table.steps
          /\ photos = table.photos
    /\ ui = farmEffect(Unmounted, FarmA)
    /\ last = Idle

\* The ids that calls in flight may still ask of crypto.randomUUID().
IdsReserved ==
    ui.fresh + Cardinality({t \in ui.tasks : t.kind = "loadBatchesForFarm" /\ t.stage = "batches"})

\* The page shows BatchSelector and the step buttons.
Shown == ui.processStatus.loaded

\* The parent passes another farm.
ChangeFarm ==
    /\ IdsReserved < MaxNewIds
    /\ Cardinality(ui.tasks) < MaxTasks
    /\ \E farmId \in FarmIds \ {ui.farm} : ui' = farmEffect(ui, farmId)
    /\ last' = Idle
    /\ UNCHANGED <<trees, steps, photos, farms>>

\* getBatchesByFarm returns to loadBatchesForFarm.
BatchesLoaded ==
    /\ \E task \in ui.tasks :
          /\ task.kind = "loadBatchesForFarm"
          /\ task.stage = "batches"
          /\ ui' = batchesLoaded(ui, task,
                       shownBatches(getBatchesByFarm(steps, task.farm_id, FALSE)))
    /\ UNCHANGED <<trees, steps, photos, farms, last>>

\* getFarmProcessStatus returns to loadBatchesForFarm or loadProcessStatus.
StatusLoaded ==
    /\ \E task \in ui.tasks :
          /\ task.stage = "status"
          /\ ui' = statusLoaded(ui, task,
                       getFarmProcessStatus(steps, trees, task.farm_id, task.batch_id,
                                            StatusWorks))
    /\ UNCHANGED <<trees, steps, photos, farms, last>>

\* The user presses "New Batch".
CreateNewBatch ==
    /\ Shown
    /\ ~ui.creatingBatch
    /\ IdsReserved < MaxNewIds
    /\ Cardinality(ui.tasks) < MaxTasks
    /\ ui' = handleCreateNewBatch(ui)
    /\ last' = Idle
    /\ UNCHANGED <<trees, steps, photos, farms>>

\* getBatchesByFarm returns to handleCreateNewBatch.
NewBatchLoaded ==
    /\ \E task \in ui.tasks :
          /\ task.kind = "handleCreateNewBatch"
          /\ ui' = newBatchLoaded(ui, task,
                       shownBatches(getBatchesByFarm(steps, task.farm_id, FALSE)))
    /\ UNCHANGED <<trees, steps, photos, farms, last>>

\* The user picks another batch in the list of BatchSelector.
PickBatch ==
    /\ Shown
    /\ Cardinality(ui.tasks) < MaxTasks
    /\ \E i \in 1..Len(ui.batches) :
          /\ ui.batches[i].batch_id # ui.selectedBatchId
          /\ ui' = onSelectBatch(ui, ui.batches[i].batch_id)
    /\ last' = Idle
    /\ UNCHANGED <<trees, steps, photos, farms>>

\* What the step form submits on this page: a monthly update of the first
\* tree, or a drying step, with a photo taken inside the parcel of farm A.
PageInputs ==
    {s \in StepInputs(trees) :
        /\ s.step_type # "final_bag"
        /\ s.step_type = "monthly_update" => s.tree_id = Tree1.id
        /\ s.location = Pt(1, 2)}

\* The user submits the step form: createProcessStep for the batch
\* selected, then handleStepComplete.
RecordStep ==
    /\ Shown
    /\ Len(steps) < MaxPageSteps
    /\ Len(photos) < MaxPageSteps
    /\ Cardinality(ui.tasks) < MaxTasks
    /\ \E stepData \in PageInputs :
          LET created == createProcessStep(trees, farms, steps, photos, ui.farm, stepData,
                                           ui.selectedBatchId, FreshId, NoFailure)
          IN  /\ steps' = created.steps
              /\ photos' = created.photos
              /\ ui' = stepCompleted(ui, created)
              /\ last' = [op |-> "createProcessStep", inserted |-> created.inserted,
                          batch_id |-> IF created.inserted
                                       THEN created.steps[Len(created.steps)].batch_id
                                       ELSE NULL,
                          newBatchId |-> IF ui.creatingBatch THEN NULL ELSE ui.newBatchId]
    /\ UNCHANGED <<trees, farms>>

NextPage ==
    \/ ChangeFarm
    \/ BatchesLoaded
    \/ StatusLoaded
    \/ CreateNewBatch
    \/ NewBatchLoaded
    \/ PickBatch
    \/ RecordStep

SpecPage == InitPage /\ [][NextPage]_vars

\* handleCreateNewBatch has run to its end and the user has chosen no other
\* batch since.
NewBatchCreated == ui.newBatchId # NULL /\ ~ui.creatingBatch

\* C28: after handleCreateNewBatch has succeeded the selected batch is the
\* one it created, until the user selects another, also on a farm that has
\* batches with steps already; a step the user records then belongs to the
\* new batch.
C28_NewBatchStaysSelected ==
    /\ NewBatchCreated => ui.selectedBatchId = ui.newBatchId
    /\ (last.op = "createProcessStep" /\ last.inserted /\ last.newBatchId # NULL)
          => last.batch_id = last.newBatchId

\* The batches listed, the batch selected and the status shown are those
\* of the farm.
ShownBelongsTo(farmId) ==
    /\ \A i \in 1..Len(ui.batches) : ui.batches[i].farm_id = farmId
    /\ \A i \in 1..Len(steps) :
          steps[i].batch_id = ui.selectedBatchId => steps[i].farm_id = farmId
    /\ \A i \in 1..Len(ui.processStatus.status.completedSteps) :
          ui.processStatus.status.completedSteps[i].farm_id = farmId

\* C30: when the farm has changed to B while calls for farm A were in
\* flight, then with every call answered, in whichever order, the batches,
\* the selected batch and the status shown are those of farm B.
C30_PageShowsTheCurrentFarm ==
    (ui.farm = FarmB /\ ui.tasks = {}) => ShownBelongsTo(FarmB)

====
